---- MODULE Spec2Model ----
(***************************************************************************)
(* Model of the reconciliation pipeline of ai-bubble-research:             *)
(*   alphadata.py          merge_all_data, calculate_historical_market_cap,*)
(*                         process_ticker                                  *)
(*   calculate_metrics.py  calculate_all_metrics                           *)
(*   data_prep.py          winsorize_series, latest_cross_section          *)
(*   returns.py            _build_ticker_index, _group_cap_weights,        *)
(*                         aggregate_group_index                           *)
(*                                                                         *)
(* A pandas DataFrame is a record [cols, rows]: cols is the set of column  *)
(* labels, rows the sequence of rows, each row a function from cols to     *)
(* cells.  Numeric cells are exact rationals extended with the float       *)
(* values the code can produce (NaN/None, +inf, -inf).                     *)
(***************************************************************************)
EXTENDS Integers, Sequences, FiniteSets, TLC

VARIABLES pc, income_df, earnings_df, balance_df, cashflow_df, prices_df,
          merged_df, historical_market_cap_df, final_df, metrics_df,
          series, pct, w1, w2, panel, idx_panel, eq, cap, latest,
          group_map_csv, mapping, attached,
          API_KEYS, api_call_counts, current_api_key_index, fetch_no, result, exhausted,
          reports,
          remaining_tickers, feeds, alpha

vars == <<pc, income_df, earnings_df, balance_df, cashflow_df, prices_df,
          merged_df, historical_market_cap_df, final_df, metrics_df,
          series, pct, w1, w2, panel, idx_panel, eq, cap, latest,
          group_map_csv, mapping, attached,
          API_KEYS, api_call_counts, current_api_key_index, fetch_no, result, exhausted,
          reports,
          remaining_tickers, feeds, alpha>>

batchVars == <<remaining_tickers, feeds, alpha>>

fetchVars == <<reports>>

keyVars == <<API_KEYS, api_call_counts, current_api_key_index, fetch_no, result, exhausted>>

groupVars == <<group_map_csv, mapping, attached>>

(***************************************************************************)
(* Cells.  k = "null" is None / NaN / pd.NA (pandas treats them alike as   *)
(* missing), k = "str" a non-numeric string such as the API's "None",      *)
(* k = "inf" an infinity of sign n, k = "fin" the rational n/d in lowest   *)
(* terms with d > 0.                                                       *)
(***************************************************************************)
NULL == [k |-> "null", n |-> 0, d |-> 1]

NoneStr == [k |-> "str", n |-> 0, d |-> 1]

INF == [k |-> "inf", n |-> 1, d |-> 1]

NINF == [k |-> "inf", n |-> -1, d |-> 1]

AbsInt(i) == IF i < 0 THEN -i ELSE i

RECURSIVE GCD(_, _)
GCD(a, b) == IF b = 0 THEN a ELSE GCD(b, a % b)

Rat(n, d) ==
    LET s == IF d < 0 THEN -1 ELSE 1
        g == GCD(AbsInt(n), AbsInt(d))
    IN  [k |-> "fin", n |-> (s * n) \div g, d |-> (s * d) \div g]

Num(i) == [k |-> "fin", n |-> i, d |-> 1]

IsNull(v) == v.k = "null"

IsFin(v) == v.k = "fin"

IsInf(v) == v.k = "inf"

IsZero(v) == v.k = "fin" /\ v.n = 0

Sign(v) == IF v.n > 0 THEN 1 ELSE IF v.n < 0 THEN -1 ELSE 0

\* IEEE-754 arithmetic of numpy float64 columns, exact on the finite part
Neg(a) == IF IsNull(a) THEN NULL ELSE [a EXCEPT !.n = -a.n]

Abs(a) == IF IsNull(a) THEN NULL ELSE [a EXCEPT !.n = AbsInt(a.n)]

Add(a, b) ==
    IF IsNull(a) \/ IsNull(b) THEN NULL
    ELSE IF IsInf(a) /\ IsInf(b) THEN (IF a.n = b.n THEN a ELSE NULL)
    ELSE IF IsInf(a) THEN a
    ELSE IF IsInf(b) THEN b
    ELSE Rat(a.n * b.d + b.n * a.d, a.d * b.d)

Sub(a, b) == Add(a, Neg(b))

Mul(a, b) ==
    IF IsNull(a) \/ IsNull(b) THEN NULL
    ELSE IF IsInf(a) \/ IsInf(b)
         THEN (IF Sign(a) * Sign(b) > 0 THEN INF
               ELSE IF Sign(a) * Sign(b) < 0 THEN NINF ELSE NULL)
    ELSE Rat(a.n * b.n, a.d * b.d)

\* float division: x/0 is +-inf, 0/0 is NaN, never an exception
Div(a, b) ==
    IF IsNull(a) \/ IsNull(b) THEN NULL
    ELSE IF IsInf(a) /\ IsInf(b) THEN NULL
    ELSE IF IsInf(a) THEN (IF Sign(b) < 0 THEN Neg(a) ELSE a)
    ELSE IF IsInf(b) THEN Num(0)
    ELSE IF b.n = 0
         THEN (IF a.n > 0 THEN INF ELSE IF a.n < 0 THEN NINF ELSE NULL)
    ELSE Rat(a.n * b.d, a.d * b.n)

Less(a, b) == a.n * b.d < b.n * a.d

Leq(a, b) == a.n * b.d <= b.n * a.d

\* pd.to_numeric(x, errors='coerce')
ToNumeric(v) == IF v.k = "str" THEN NULL ELSE v

(***************************************************************************)
(* DataFrames                                                              *)
(***************************************************************************)
\* pd.DataFrame()
EmptyFrame == [cols |-> {}, rows |-> <<>>]

\* DataFrame.empty
IsEmpty(df) == df.cols = {} \/ df.rows = <<>>

Range(f) == {f[i] : i \in DOMAIN f}

RECURSIVE Flatten(_)
Flatten(qq) == IF qq = <<>> THEN <<>> ELSE Head(qq) \o Flatten(Tail(qq))

RECURSIVE SetToSortedSeq(_)
SetToSortedSeq(S) ==
    IF S = {} THEN <<>>
    ELSE LET m == CHOOSE x \in S : \A y \in S : x <= y
         IN  <<m>> \o SetToSortedSeq(S \ {m})

Reverse(q) == [i \in 1..Len(q) |-> q[Len(q) + 1 - i]]

SelectRows(rows, col, key) == SelectSeq(rows, LAMBDA r : r[col] = key)

\* Widen filling the new columns with zero
Widen_Zero(r, cs) == [c \in cs |-> IF c \in DOMAIN r THEN r[c] ELSE [k |-> "fin", n |-> 0, d |-> 1]]

\* a row widened to the columns cs, cells of new columns missing
Widen(r, cs) == [c \in cs |-> IF c \in DOMAIN r THEN r[c] ELSE NULL]

Combine(l, r) == [c \in (DOMAIN l) \cup (DOMAIN r) |->
                    IF c \in DOMAIN l THEN l[c] ELSE r[c]]

\* DataFrame.sort_values(col, ascending=...) on an integer-valued column
SortValues(rows, col, ascending) ==
    LET keys == SetToSortedSeq({r[col] : r \in Range(rows)})
        ord  == IF ascending THEN keys ELSE Reverse(keys)
    IN  Flatten([i \in 1..Len(ord) |-> SelectRows(rows, col, ord[i])])

(***************************************************************************)
(* alphadata.py: the columns the extract_* functions give each source.     *)
(* Only the columns some later step reads are carried; the others          *)
(* (grossProfit, ebit, ...) travel through the merge in the same way and   *)
(* are read by nothing.                                                    *)
(***************************************************************************)
KeyCol == "fiscalDateEnding"

IncomeCols == {"totalRevenue", "netIncome", "researchAndDevelopment"}

EarningsCols == {"reportedEPS", "estimatedEPS"}

BalanceCols == {"totalLiabilities", "totalShareholderEquity",
                "cashAndCashEquivalentsAtCarryingValue", "shortTermDebt",
                "commonStockSharesOutstanding"}

CashflowCols == {"operatingCashflow", "capitalExpenditures",
                 "proceedsFromRepurchaseOfEquity"}

\* the rows of left.merge(right, on='fiscalDateEnding') for one key
MergeKeyRows(L, R, cols) ==
    IF R = <<>> THEN [i \in 1..Len(L) |-> Widen(L[i], cols)]
    ELSE IF L = <<>> THEN [j \in 1..Len(R) |-> Widen(R[j], cols)]
    ELSE Flatten([i \in 1..Len(L) |-> [j \in 1..Len(R) |-> Combine(L[i], R[j])]])

\* merged.merge(df, on='fiscalDateEnding', how='left'): the left rows in
\* their order, each once per matching right row
MergeLeft(left, right) ==
    LET cols == left.cols \cup right.cols
    IN  [cols |-> cols,
         rows |-> Flatten([i \in 1..Len(left.rows) |->
                     MergeKeyRows(<<left.rows[i]>>,
                                  SelectRows(right.rows, KeyCol, left.rows[i][KeyCol]),
                                  cols)])]

\* MergeOuter with how='left': the keys of the right side alone are lost
MergeOuter_Left(left, right) == MergeLeft(left, right)

\* merged.merge(df, on='fiscalDateEnding', how='outer'): every key of either
\* side, one row per pair of matching rows, keys in sorted order
MergeOuter(left, right) ==
    LET cols == left.cols \cup right.cols
        keys == SetToSortedSeq({r[KeyCol] : r \in Range(left.rows) \cup Range(right.rows)})
    IN  [cols |-> cols,
         rows |-> Flatten([i \in 1..Len(keys) |->
                     MergeKeyRows(SelectRows(left.rows, KeyCol, keys[i]),
                                  SelectRows(right.rows, KeyCol, keys[i]), cols)])]

\* the loop of merge_all_data over the four sources, from source i on
RECURSIVE MergeLoop(_, _, _, _)
MergeLoop(merged, dfs, base_df, i) ==
    IF i > Len(dfs) THEN merged
    ELSE IF ~IsEmpty(dfs[i]) /\ dfs[i] # base_df
         THEN MergeLoop(MergeOuter(merged, dfs[i]), dfs, base_df, i + 1)
         ELSE MergeLoop(merged, dfs, base_df, i + 1)

\* merge_all_data from line 368 on: the first non-empty source as the base,
\* the others joined onto it, the rows newest first
MergeNonEmpty(dfs, nonempty) ==
    LET base_df == dfs[CHOOSE i \in nonempty : \A j \in nonempty : i <= j]
        merged  == MergeLoop(base_df, dfs, base_df, 1)
    IN  IF KeyCol \in merged.cols
        THEN [merged EXCEPT !.rows = SortValues(merged.rows, KeyCol, FALSE)]
        ELSE merged

\* merge_all_data answering four empty sources with one row of nulls
merge_all_data_NullRow(inc, ear, bal, cf) ==
    LET dfs == <<inc, ear, bal, cf>>
        nonempty == {i \in 1..4 : ~IsEmpty(dfs[i])}
    IN  IF nonempty = {}
        THEN [cols |-> IncomeCols, rows |-> <<[c \in IncomeCols |-> NULL]>>]
        ELSE MergeNonEmpty(dfs, nonempty)

merge_all_data(inc, ear, bal, cf) ==
    LET dfs == <<inc, ear, bal, cf>>
        nonempty == {i \in 1..4 : ~IsEmpty(dfs[i])}
    IN  IF nonempty = {} THEN EmptyFrame ELSE MergeNonEmpty(dfs, nonempty)

(***************************************************************************)
(* calculate_historical_market_cap.  prices_df is None or a frame indexed  *)
(* by trading day; close[d] is the close of day d.                         *)
(***************************************************************************)
None == [none |-> TRUE]

IsNone(x) == "none" \in DOMAIN x

PriceFrame(close) == [close |-> close]

\* the window of the nearest-trading-day search, in days
W == 30

HistCols == {KeyCol, "marketCap", "stockPrice", "sharesOutstanding", "priceDate"}

Min(S) == CHOOSE x \in S : \A y \in S : x <= y

\* ClosestDate without the upper limit of the window: the first trading day
\* on or after the fiscal date, else the last one before it
ClosestDate_NoWindow(fiscal_date, index) ==
    LET valid_days == {p - fiscal_date : p \in {q \in index : q - fiscal_date >= 0}}
        valid_days_before == {fiscal_date - p : p \in {q \in index :
                                                        fiscal_date - q >= 0}}
    IN  IF valid_days # {} THEN {fiscal_date + Min(valid_days)}
        ELSE IF valid_days_before # {} THEN {fiscal_date - Min(valid_days_before)}
        ELSE {}

\* ClosestDate taking the trading day nearest to the fiscal date inside the
\* window, on either side, the later one on a tie
ClosestDate_Nearest(fiscal_date, index) ==
    LET near == {p \in index : (p - fiscal_date >= 0 /\ p - fiscal_date <= W)
                                  \/ (fiscal_date - p >= 0 /\ fiscal_date - p <= W)}
        gap(p) == IF p >= fiscal_date THEN p - fiscal_date ELSE fiscal_date - p
    IN  IF near = {} THEN {}
        ELSE {CHOOSE p \in near : \A q \in near :
                  gap(p) < gap(q) \/ (gap(p) = gap(q) /\ p >= q)}

\* the trading day matched to a fiscal date: the set holding it, or {}
ClosestDate(fiscal_date, index) ==
    LET valid_days == {p - fiscal_date : p \in {q \in index :
                            q - fiscal_date >= 0 /\ q - fiscal_date <= W}}
        valid_days_before == {fiscal_date - p : p \in {q \in index :
                            fiscal_date - q >= 0 /\ fiscal_date - q <= W}}
    IN  IF valid_days # {} THEN {fiscal_date + Min(valid_days)}
        ELSE IF valid_days_before # {} THEN {fiscal_date - Min(valid_days_before)}
        ELSE {}

MarketCapRow(row, close) ==
    LET shares  == ToNumeric(row["commonStockSharesOutstanding"])
        matched == ClosestDate(row[KeyCol], DOMAIN close)
    IN  IF matched = {} THEN <<>>
        ELSE LET closest_date == CHOOSE p \in matched : TRUE
             IN  <<[c \in HistCols |->
                     CASE c = KeyCol -> row[KeyCol]
                       [] c = "marketCap" -> Mul(shares, close[closest_date])
                       [] c = "stockPrice" -> close[closest_date]
                       [] c = "sharesOutstanding" -> shares
                       [] c = "priceDate" -> closest_date]>>

calculate_historical_market_cap(financial_df, prices) ==
    IF IsEmpty(financial_df) \/ IsNone(prices) THEN None
    ELSE IF DOMAIN prices.close = {} THEN None
    ELSE IF "commonStockSharesOutstanding" \notin financial_df.cols THEN None
    ELSE LET df == SelectSeq(financial_df.rows, LAMBDA r :
                       ~IsNull(ToNumeric(r["commonStockSharesOutstanding"])))
             historical_market_caps ==
                 Flatten([i \in 1..Len(df) |-> MarketCapRow(df[i], prices.close)])
         IN  IF df = <<>> \/ historical_market_caps = <<>> THEN None
             ELSE [cols |-> HistCols, rows |-> historical_market_caps]

\* df[[...]]: the frame restricted to the columns cs
Project(df, cs) ==
    [cols |-> cs, rows |-> [i \in 1..Len(df.rows) |-> [c \in cs |-> df.rows[i][c]]]]

\* merged_df.insert(0, 'ticker', ticker)
InsertTicker(df, ticker) ==
    [cols |-> df.cols \cup {"ticker"},
     rows |-> [i \in 1..Len(df.rows) |->
                 [c \in df.cols \cup {"ticker"} |->
                     IF c = "ticker" THEN ticker ELSE df.rows[i][c]]]]

\* JoinMarketCap keeping only the rows that have an annotation
JoinMarketCap_Inner(merged, hist) ==
    IF ~IsNone(hist) /\ ~IsEmpty(hist)
    THEN LET joined == MergeLeft(merged, Project(hist, {KeyCol, "marketCap",
                                             "stockPrice", "sharesOutstanding"}))
         IN  [joined EXCEPT !.rows = SelectSeq(joined.rows, LAMBDA r :
                 \E h \in Range(hist.rows) : h[KeyCol] = r[KeyCol])]
    ELSE merged

\* JoinMarketCap giving no rows when there is no annotation at all
JoinMarketCap_NoneEmpty(merged, hist) ==
    IF ~IsNone(hist) /\ ~IsEmpty(hist)
    THEN MergeLeft(merged, Project(hist, {KeyCol, "marketCap", "stockPrice",
                                           "sharesOutstanding"}))
    ELSE [merged EXCEPT !.rows = <<>>]

\* process_ticker, lines 565-577: the annotation joined onto the merged rows
JoinMarketCap(merged, hist) ==
    IF ~IsNone(hist) /\ ~IsEmpty(hist)
    THEN MergeLeft(merged, Project(hist, {KeyCol, "marketCap", "stockPrice",
                                           "sharesOutstanding"}))
    ELSE merged

(***************************************************************************)
(* calculate_metrics.py: calculate_all_metrics.  The result is a frame     *)
(* with raised = FALSE, or raised = TRUE when the call ends in an          *)
(* exception (a KeyError on a column read without a guard, or pd.concat    *)
(* of an empty list).                                                      *)
(***************************************************************************)
\* the tickers, in the order sort_values gives them
TickerSeq == <<"AAA", "BBB", "CCC">>

Rank(t) == CHOOSE i \in 1..Len(TickerSeq) : TickerSeq[i] = t

DerivedCols == {"revenueGrowthPct", "netIncomeMarginPct", "epsSurprisePct",
                "freeCashFlow", "debtToEquityRatio", "cashRatio", "rdIntensityPct",
                "buybackRatio", "peRatio", "psRatio", "priceToBookRatio"}

NonNumericCols == {KeyCol, "ticker", "priceDate"}

Raised == [raised |-> TRUE, cols |-> {}, rows |-> <<>>]

\* Series.replace(0, pd.NA)
ReplaceZeroNA(v) == IF IsZero(v) THEN NULL ELSE v

\* ConvertNumeric that fills a missing cell with 0
ConvertNumeric_FillZero(df) ==
    [df EXCEPT !.rows = [i \in 1..Len(df.rows) |->
        [c \in df.cols |-> IF c \in NonNumericCols THEN df.rows[i][c]
                           ELSE IF IsNull(ToNumeric(df.rows[i][c])) THEN Num(0)
                           ELSE ToNumeric(df.rows[i][c])]]]

\* lines 66-69: every column but the three named ones through pd.to_numeric
ConvertNumeric(df) ==
    [df EXCEPT !.rows = [i \in 1..Len(df.rows) |->
        [c \in df.cols |-> IF c \in NonNumericCols THEN df.rows[i][c]
                           ELSE ToNumeric(df.rows[i][c])]]]

\* ticker_df['totalRevenue'].pct_change(fill_method=None) at row i
PctChange(rows, col, i) ==
    IF i = 1 THEN NULL ELSE Sub(Div(rows[i][col], rows[i - 1][col]), Num(1))

\* lines 80-139 for row i of one ticker's rows (oldest first)
MetricsRow(rows, i, cols) ==
    LET r == rows[i]
        Has(c) == c \in cols
    IN  [c \in cols \cup DerivedCols |->
          CASE c = "revenueGrowthPct" ->
                 Mul(PctChange(rows, "totalRevenue", i), Num(100))
            [] c = "netIncomeMarginPct" ->
                 Mul(Div(r["netIncome"], r["totalRevenue"]), Num(100))
            [] c = "epsSurprisePct" ->
                 IF Has("reportedEPS") /\ Has("estimatedEPS")
                 THEN Mul(Div(Sub(r["reportedEPS"], r["estimatedEPS"]),
                              ReplaceZeroNA(Abs(r["estimatedEPS"]))), Num(100))
                 ELSE NULL
            [] c = "freeCashFlow" ->
                 IF Has("operatingCashflow") /\ Has("capitalExpenditures")
                 THEN Add(r["operatingCashflow"], r["capitalExpenditures"])
                 ELSE NULL
            [] c = "debtToEquityRatio" ->
                 IF Has("totalLiabilities") /\ Has("totalShareholderEquity")
                 THEN Div(r["totalLiabilities"], r["totalShareholderEquity"])
                 ELSE NULL
            [] c = "cashRatio" ->
                 IF Has("cashAndCashEquivalentsAtCarryingValue") /\ Has("shortTermDebt")
                 THEN Div(r["cashAndCashEquivalentsAtCarryingValue"], r["shortTermDebt"])
                 ELSE NULL
            [] c = "rdIntensityPct" ->
                 IF Has("researchAndDevelopment") /\ Has("totalRevenue")
                 THEN Mul(Div(r["researchAndDevelopment"], r["totalRevenue"]), Num(100))
                 ELSE NULL
            [] c = "buybackRatio" ->
                 IF Has("proceedsFromRepurchaseOfEquity") /\ Has("netIncome")
                 THEN Div(Neg(r["proceedsFromRepurchaseOfEquity"]), r["netIncome"])
                 ELSE NULL
            [] c = "peRatio" ->
                 IF Has("marketCap") /\ Has("netIncome")
                 THEN Div(r["marketCap"], r["netIncome"])
                 ELSE NULL
            [] c = "psRatio" ->
                 IF Has("marketCap") /\ Has("totalRevenue")
                 THEN Div(r["marketCap"], r["totalRevenue"])
                 ELSE NULL
            [] c = "priceToBookRatio" ->
                 IF Has("marketCap") /\ Has("totalShareholderEquity")
                 THEN Div(r["marketCap"], r["totalShareholderEquity"])
                 ELSE NULL
            [] OTHER -> r[c]]

\* TickerMetrics taking the metrics over the whole sorted frame and then the
\* ticker's rows, so that a ticker's first row follows another ticker's last
TickerMetrics_AllRows(rows, ticker, cols) ==
    LET sorted == Flatten([k \in 1..Len(TickerSeq) |->
                      SortValues(SelectRows(rows, "ticker", TickerSeq[k]), KeyCol, TRUE)])
        out == [i \in 1..Len(sorted) |-> MetricsRow(sorted, i, cols)]
    IN  SortValues(SelectRows(out, "ticker", ticker), KeyCol, FALSE)

\* lines 78-143 for one ticker: its rows oldest first, the metrics, then the
\* rows newest first
TickerMetrics(rows, ticker, cols) ==
    LET ticker_df == SortValues(SelectRows(rows, "ticker", ticker), KeyCol, TRUE)
        out == [i \in 1..Len(ticker_df) |-> MetricsRow(ticker_df, i, cols)]
    IN  SortValues(out, KeyCol, FALSE)

calculate_all_metrics(df0) ==
    LET df == ConvertNumeric(df0)
        ranks == SetToSortedSeq({Rank(r["ticker"]) : r \in Range(df.rows)})
    IN  IF "ticker" \notin df.cols \/ KeyCol \notin df.cols THEN Raised
        ELSE IF ranks = <<>> THEN Raised
        ELSE IF "totalRevenue" \notin df.cols \/ "netIncome" \notin df.cols THEN Raised
        ELSE [raised |-> FALSE,
              cols |-> df.cols \cup DerivedCols,
              rows |-> Flatten([i \in 1..Len(ranks) |->
                          TickerMetrics(df.rows, TickerSeq[ranks[i]], df.cols)])]

(***************************************************************************)
(* data_prep.py: winsorize_series and latest_cross_section.  A Series is a *)
(* sequence of cells; a panel is a sequence of rows [fixed_ticker, Date,   *)
(* Total_Return, Market_Capitalization, group], the row label its position.*)
(***************************************************************************)
RECURSIVE SortCells(_)
SortCells(q) ==
    IF q = <<>> THEN <<>>
    ELSE LET i == CHOOSE i \in 1..Len(q) : \A j \in 1..Len(q) : Leq(q[i], q[j])
         IN  <<q[i]>> \o SortCells(SubSeq(q, 1, i - 1) \o SubSeq(q, i + 1, Len(q)))

DropNull(s) == SelectSeq(s, LAMBDA v : ~IsNull(v))

\* Series.quantile(q), linear interpolation between the two order statistics
\* around position (n - 1) * q of the non-null values; NaN when there is none
Quantile(s, q) ==
    LET x == SortCells(DropNull(s))
        n == Len(x)
        h == Mul(Num(n - 1), q)
        i == h.n \div h.d
        frac == Sub(h, Num(i))
    IN  IF n = 0 THEN NULL
        ELSE IF i + 2 > n THEN x[i + 1]
        ELSE Add(x[i + 1], Mul(frac, Sub(x[i + 2], x[i + 1])))

\* Clip that discards instead of clipping: a value outside the bounds is lost
Clip_Trim(v, lo, hi) ==
    IF IsNull(v) THEN v
    ELSE IF ~IsNull(lo) /\ Less(v, lo) THEN NULL
    ELSE IF ~IsNull(hi) /\ Less(hi, v) THEN NULL
    ELSE v

\* Clip with the lower bound only
Clip_LowerOnly(v, lo, hi) ==
    IF IsNull(v) THEN v
    ELSE IF ~IsNull(lo) /\ Less(v, lo) THEN lo
    ELSE v

\* Series.clip(lower=lo, upper=hi) on one cell; a NaN bound does not bound
Clip(v, lo, hi) ==
    IF IsNull(v) THEN v
    ELSE IF ~IsNull(lo) /\ Less(v, lo) THEN lo
    ELSE IF ~IsNull(hi) /\ Less(hi, v) THEN hi
    ELSE v

winsorize_series(s, lower_pct, upper_pct) ==
    IF s = <<>> THEN s
    ELSE LET lo == Quantile(s, lower_pct)
             hi == Quantile(s, upper_pct)
         IN  [i \in 1..Len(s) |-> Clip(s[i], lo, hi)]

TickersOf(rows) == {r.fixed_ticker : r \in Range(rows)}

Max(S) == CHOOSE x \in S : \A y \in S : y <= x

\* IdxMax taking the smallest date
IdxMax_Min(rows, t) ==
    LET own == {i \in 1..Len(rows) : rows[i].fixed_ticker = t}
        low == Min({rows[i].Date : i \in own})
    IN  Min({i \in own : rows[i].Date = low})

\* IdxMax taking the last row that carries the largest date
IdxMax_Last(rows, t) ==
    LET own == {i \in 1..Len(rows) : rows[i].fixed_ticker = t}
        top == Max({rows[i].Date : i \in own})
    IN  Max({i \in own : rows[i].Date = top})

\* groupby("fixed_ticker")["Date"].idxmax(): the label of the first row of the
\* ticker that carries its largest date
IdxMax(rows, t) ==
    LET own == {i \in 1..Len(rows) : rows[i].fixed_ticker = t}
        top == Max({rows[i].Date : i \in own})
    IN  Min({i \in own : rows[i].Date = top})

latest_cross_section(rows) ==
    IF rows = <<>> THEN rows
    ELSE LET ranks == SetToSortedSeq({Rank(t) : t \in TickersOf(rows)})
         IN  [k \in 1..Len(ranks) |-> rows[IdxMax(rows, TickerSeq[ranks[k]])]]

(***************************************************************************)
(* returns.py: _build_ticker_index, _group_cap_weights,                    *)
(* aggregate_group_index, build_group_indices                              *)
(***************************************************************************)
DEFAULT_GROUP_LABEL == "Non-AI / Control Group"

\* the group labels, in the order groupby sorts them
GroupSeq == <<"AI", DEFAULT_GROUP_LABEL>>

GroupRank(g) == CHOOSE i \in 1..Len(GroupSeq) : GroupSeq[i] = g

\* lines 23-24: 1 + return/100, a missing return flat
GrowthFactor(ret) ==
    LET gf == Add(Num(1), Div(ToNumeric(ret), Num(100)))
    IN  IF IsNull(gf) THEN Num(1) ELSE gf

\* Series.cumprod() up to row i
RECURSIVE CumProd(_, _)
CumProd(gf, i) == IF i = 1 THEN gf[1] ELSE Mul(CumProd(gf, i - 1), gf[i])

WithIndex(r, v) ==
    [fixed_ticker |-> r.fixed_ticker, Date |-> r.Date, Total_Return |-> r.Total_Return,
     Market_Capitalization |-> r.Market_Capitalization, group |-> r.group, index |-> v]

SortByDate(rows) ==
    LET ds == SetToSortedSeq({r.Date : r \in Range(rows)})
    IN  Flatten([i \in 1..Len(ds) |-> SelectSeq(rows, LAMBDA r : r.Date = ds[i])])

\* _cum: one ticker's rows by date, 100 * cumprod, rebased on the first value
\* unless that value is 0 or NaN
Cum(rows) ==
    LET idx_df == SortByDate(rows)
        gf == [i \in 1..Len(idx_df) |-> GrowthFactor(idx_df[i].Total_Return)]
        index == [i \in 1..Len(idx_df) |-> Mul(Num(100), CumProd(gf, i))]
        first_val == index[1]
    IN  [i \in 1..Len(idx_df) |->
            WithIndex(idx_df[i],
                      IF ~IsNull(first_val) /\ ~IsZero(first_val)
                      THEN Mul(index[i], Div(Num(100), first_val))
                      ELSE index[i])]

\* build_ticker_index without the start-date filter
build_ticker_index_Unfiltered(rows, start_date) ==
    LET ranks == SetToSortedSeq({Rank(t) : t \in TickersOf(rows)})
    IN  IF rows = <<>> THEN rows
        ELSE Flatten([k \in 1..Len(ranks) |->
                 Cum(SelectSeq(rows, LAMBDA r : r.fixed_ticker = TickerSeq[ranks[k]]))])

\* the rows at or after start_date; the per-ticker indices in ticker order
build_ticker_index(rows, start_date) ==
    LET df == SelectSeq(rows, LAMBDA r : r.Date >= start_date)
        ranks == SetToSortedSeq({Rank(t) : t \in TickersOf(df)})
    IN  IF df = <<>> THEN df
        ELSE Flatten([k \in 1..Len(ranks) |->
                 Cum(SelectSeq(df, LAMBDA r : r.fixed_ticker = TickerSeq[ranks[k]]))])

RECURSIVE SumCells(_)
SumCells(q) == IF q = <<>> THEN Num(0) ELSE Add(Head(q), SumCells(Tail(q)))

\* Series.sum() and Series.mean(): missing cells skipped
SumSkipNa(q) == SumCells(DropNull(q))

Mean(q) ==
    IF DropNull(q) = <<>> THEN NULL ELSE Div(SumSkipNa(q), Num(Len(DropNull(q))))

\* PositiveOnly without the filter: every numeric cap kept
PositiveOnly_Any(c) == c

\* PositiveOnly counting a negative cap with its absolute value
PositiveOnly_Abs(c) == IF IsFin(c) /\ c.n # 0 THEN Abs(c) ELSE NULL

\* caps.where(caps > 0)
PositiveOnly(c) == IF IsFin(c) /\ c.n > 0 THEN c ELSE NULL

\* the weights of one (group, Date) cell, or None when the positive caps sum
\* to zero
group_cap_weights(g) ==
    LET caps == [i \in 1..Len(g) |-> PositiveOnly(ToNumeric(g[i].Market_Capitalization))]
        cap_sum == SumSkipNa(caps)
    IN  IF IsNull(cap_sum) \/ IsZero(cap_sum) THEN None
        ELSE [w |-> [i \in 1..Len(g) |->
                        LET wi == Div(caps[i], cap_sum)
                        IN  IF IsNull(wi) THEN Num(0) ELSE wi]]

\* np.average(a, weights=w)
Average(a, w) ==
    Div(SumCells([i \in 1..Len(a) |-> Mul(a[i], w[i])]), SumCells(w))

\* _agg: the value of one (group, Date) cell
Agg(g, weighting) ==
    LET index == [i \in 1..Len(g) |-> g[i].index]
    IN  IF weighting = "equal" THEN Mean(index)
        ELSE LET w == group_cap_weights(g)
             IN  IF IsNone(w) THEN Mean(index)
                 ELSE IF IsZero(SumCells(w.w)) THEN Mean(index)
                 ELSE Average(index, w.w)

\* CellRows taking the rows of the group up to the date, not only on it
CellRows_UpTo(rows, g, d) == SelectSeq(rows, LAMBDA r : r.group = g /\ r.Date <= d)

CellRows(rows, g, d) == SelectSeq(rows, LAMBDA r : r.group = g /\ r.Date = d)

\* groupby(["group", "Date"]).apply(_agg).reset_index(): one row per cell
\* that has rows, cells in (group, Date) order
aggregate_group_index(panel_indexed, weighting) ==
    LET gs == SetToSortedSeq({GroupRank(r.group) : r \in Range(panel_indexed)})
        GroupCells(g) ==
            LET ds == SetToSortedSeq({r.Date : r \in
                          {x \in Range(panel_indexed) : x.group = g}})
            IN  [j \in 1..Len(ds) |->
                    [group |-> g, Date |-> ds[j],
                     group_index |-> Agg(CellRows(panel_indexed, g, ds[j]), weighting)]]
    IN  Flatten([i \in 1..Len(gs) |-> GroupCells(GroupSeq[gs[i]])])

(***************************************************************************)
(* Inputs.  Dates are day numbers.  A source frame is what extract_* makes *)
(* of a non-empty list of reports, pd.DataFrame() of an empty one.         *)
(***************************************************************************)
\* most report records over the four sources of one ticker
MaxRecords == 4

\* most balance-sheet reports where the price series varies
MaxQuarters == 2

\* most trading days of a price series
MaxPrices == 2

\* most cells in which an input of calculate_all_metrics differs from RefCell
MaxEdits == 1

FiscalDates == {100, 120}

PriceDates == {69, 70, 89, 100, 110, 130, 131, 150, 151}

ClosePrice(p) == Num(p \div 10)

\* a fully populated record of the quarter ending on day d
RefCell(c, d) ==
    CASE c = "totalRevenue" -> Num(d)
      [] c = "netIncome" -> Num(d - 95)
      [] c = "researchAndDevelopment" -> Num(10)
      [] c = "reportedEPS" -> Num(3)
      [] c = "estimatedEPS" -> Num(-2)
      [] c = "totalLiabilities" -> Num(50)
      [] c = "totalShareholderEquity" -> Num(40)
      [] c = "cashAndCashEquivalentsAtCarryingValue" -> Num(8)
      [] c = "shortTermDebt" -> Num(4)
      [] c = "commonStockSharesOutstanding" -> Num(2)
      [] c = "operatingCashflow" -> Num(30)
      [] c = "capitalExpenditures" -> Num(-12)
      [] c = "proceedsFromRepurchaseOfEquity" -> Num(-6)
      [] c = "marketCap" -> Num(60)
      [] c = "stockPrice" -> Num(30)
      [] c = "sharesOutstanding" -> Num(2)
      [] OTHER -> NULL

\* a report of the quarter ending on day d, its shares-outstanding cell sh
Report(cols, d, sh) ==
    [c \in cols \cup {KeyCol} |->
        IF c = KeyCol THEN d
        ELSE IF c = "commonStockSharesOutstanding" THEN sh
        ELSE RefCell(c, d)]

RECURSIVE SeqsUpTo(_, _)
SeqsUpTo(S, n) ==
    IF n = 0 THEN {<<>>}
    ELSE LET shorter == SeqsUpTo(S, n - 1)
         IN  shorter \cup {Append(q, x) : q \in {t \in shorter : Len(t) = n - 1}, x \in S}

FrameOf(cols, rows) ==
    IF rows = <<>> THEN EmptyFrame ELSE [cols |-> cols \cup {KeyCol}, rows |-> rows]

\* the frames of one source with at most n reports
SourceFrames(cols, shares, n) ==
    {FrameOf(cols, q) : q \in SeqsUpTo({Report(cols, d, sh) :
                                          d \in FiscalDates, sh \in shares}, n)}

PricesOn(days) == PriceFrame([p \in days |-> ClosePrice(p)])

RECURSIVE Subsets(_, _)
Subsets(S, n) ==
    IF n = 0 THEN {{}}
    ELSE LET smaller == Subsets(S, n - 1)
         IN  smaller \cup {T \cup {x} : T \in smaller, x \in S}

Ticker == TickerSeq[1]

Idle ==
    /\ remaining_tickers = <<>> /\ feeds = <<>> /\ alpha = <<>>
    /\ reports = <<>>
    /\ API_KEYS = <<>> /\ api_call_counts = <<>> /\ current_api_key_index = 0 /\ fetch_no = 0 /\ result = FALSE /\ exhausted = FALSE
    /\ group_map_csv = <<>> /\ mapping = <<>> /\ attached = <<>>
    /\ series = <<>> /\ pct = <<>> /\ w1 = <<>> /\ w2 = <<>>
    /\ panel = <<>> /\ idx_panel = <<>> /\ eq = <<>> /\ cap = <<>> /\ latest = <<>>

NoOutputs ==
    /\ merged_df = EmptyFrame /\ historical_market_cap_df = None
    /\ final_df = EmptyFrame /\ metrics_df = EmptyFrame

\* process_ticker at line 555, the four frames extracted: any subset empty
Init ==
    /\ pc = "merge"
    /\ income_df \in SourceFrames(IncomeCols, {NULL}, MaxRecords)
    /\ earnings_df \in SourceFrames(EarningsCols, {NULL},
                                    MaxRecords - Len(income_df.rows))
    /\ balance_df \in SourceFrames(BalanceCols, {NoneStr, Num(2)},
                        MaxRecords - Len(income_df.rows) - Len(earnings_df.rows))
    /\ cashflow_df \in SourceFrames(CashflowCols, {NULL},
                        MaxRecords - Len(income_df.rows) - Len(earnings_df.rows)
                                   - Len(balance_df.rows))
    /\ prices_df \in {None, PricesOn({101}), PricesOn({60, 125})}
    /\ NoOutputs /\ Idle

\* the same point, the price series ranging over the days around the windows
InitAlign ==
    /\ pc = "merge"
    /\ income_df \in SourceFrames(IncomeCols, {NULL}, 1)
    /\ earnings_df = EmptyFrame
    /\ balance_df \in SourceFrames(BalanceCols, {NULL, Num(2)}, MaxQuarters)
    /\ cashflow_df = EmptyFrame
    /\ prices_df \in {None} \cup {PricesOn(S) : S \in Subsets(PriceDates, MaxPrices)}
    /\ NoOutputs /\ Idle

(***************************************************************************)
(* process_ticker from line 555, then calculate_metrics.py on the saved    *)
(* rows                                                                    *)
(***************************************************************************)
\* lines 555-563
MergeStep ==
    /\ pc = "merge"
    /\ LET m == merge_all_data(income_df, earnings_df, balance_df, cashflow_df)
       IN  IF IsEmpty(m)
           THEN merged_df' = m /\ pc' = "skipped"
           ELSE merged_df' = InsertTicker(m, Ticker) /\ pc' = "market_cap"
    /\ UNCHANGED <<income_df, earnings_df, balance_df, cashflow_df, prices_df,
                   historical_market_cap_df, final_df, metrics_df,
                   series, pct, w1, w2, panel, idx_panel, eq, cap, latest, groupVars, keyVars, fetchVars, batchVars>>

\* lines 565-595
MarketCapStep ==
    /\ pc = "market_cap"
    /\ LET hist == calculate_historical_market_cap(merged_df, prices_df)
           final == JoinMarketCap(merged_df, hist)
       IN  /\ historical_market_cap_df' = hist
           /\ final_df' = final
           /\ pc' = IF Len(final.rows) = 0 THEN "skipped" ELSE "saved"
    /\ UNCHANGED <<income_df, earnings_df, balance_df, cashflow_df, prices_df,
                   merged_df, metrics_df,
                   series, pct, w1, w2, panel, idx_panel, eq, cap, latest, groupVars, keyVars, fetchVars, batchVars>>

\* calculate_metrics.py, process_all_companies: the saved rows read back
MetricsStep ==
    /\ pc = "saved"
    /\ metrics_df' = calculate_all_metrics(final_df)
    /\ pc' = "done"
    /\ UNCHANGED <<income_df, earnings_df, balance_df, cashflow_df, prices_df,
                   merged_df, historical_market_cap_df, final_df,
                   series, pct, w1, w2, panel, idx_panel, eq, cap, latest, groupVars, keyVars, fetchVars, batchVars>>

Next == MergeStep \/ MarketCapStep \/ MetricsStep

Spec == Init /\ [][Next]_vars

SpecAlign == InitAlign /\ [][Next]_vars

(***************************************************************************)
(* calculate_all_metrics on any row set: the columns of any non-empty set  *)
(* of sources, with or without the market-cap columns, at most MaxEdits    *)
(* cells differing from the fully populated record.                        *)
(***************************************************************************)
Sources == {"income", "earnings", "balance", "cashflow"}

SourceCols(src) ==
    CASE src = "income" -> IncomeCols
      [] src = "earnings" -> EarningsCols
      [] src = "balance" -> BalanceCols
      [] src = "cashflow" -> CashflowCols

MarketCapCols == {"marketCap", "stockPrice", "sharesOutstanding"}

EditVals == {NULL, Num(0)}

RefFrame(numeric) ==
    LET dates == Reverse(SetToSortedSeq(FiscalDates))
    IN  [cols |-> numeric \cup {"ticker", KeyCol},
         rows |-> [i \in 1..Len(dates) |->
                     [c \in numeric \cup {"ticker", KeyCol} |->
                         IF c = "ticker" THEN Ticker
                         ELSE IF c = KeyCol THEN dates[i]
                         ELSE RefCell(c, dates[i])]]]

\* the frame with the cells named in E set to the value named with them
ApplyEdits(df, E) ==
    [df EXCEPT !.rows = [i \in 1..Len(df.rows) |->
        [c \in df.cols |->
            IF \E e \in E : e[1] = i /\ e[2] = c
            THEN (CHOOSE e \in E : e[1] = i /\ e[2] = c)[3]
            ELSE df.rows[i][c]]]]

EditSets(numeric, nrows, n) ==
    {E \in Subsets((1..nrows) \X numeric \X EditVals, n) :
        \A e, f \in E : (e[1] = f[1] /\ e[2] = f[2]) => e = f}

\* the inputs with at most n cells edited
MetricsInputs(n) ==
    UNION {
      LET numeric == UNION {SourceCols(src) : src \in present}
                       \cup (IF mc THEN MarketCapCols ELSE {})
      IN  {ApplyEdits(RefFrame(numeric), E) :
              E \in EditSets(numeric, Cardinality(FiscalDates), n)}
      : present \in (SUBSET Sources) \ {{}}, mc \in BOOLEAN }

InitMetrics ==
    /\ pc = "saved"
    /\ income_df = EmptyFrame /\ earnings_df = EmptyFrame
    /\ balance_df = EmptyFrame /\ cashflow_df = EmptyFrame
    /\ prices_df = None
    /\ merged_df = EmptyFrame /\ historical_market_cap_df = None
    /\ final_df \in MetricsInputs(MaxEdits)
    /\ metrics_df = EmptyFrame
    /\ Idle

NextMetrics == MetricsStep

SpecMetrics == InitMetrics /\ [][NextMetrics]_vars

(***************************************************************************)
(* Properties of the merge, the alignment and the metrics                  *)
(***************************************************************************)
DatesOf(df) == {r[KeyCol] : r \in Range(df.rows)}

NoDuplicateDates(df) ==
    \A i, j \in 1..Len(df.rows) : df.rows[i][KeyCol] = df.rows[j][KeyCol] => i = j

AllSourcesEmpty ==
    IsEmpty(income_df) /\ IsEmpty(earnings_df) /\ IsEmpty(balance_df) /\ IsEmpty(cashflow_df)

\* C1: after merge_all_data the fiscal dates of the merged rows are exactly the
\* union of the dates of the four sources: none dropped, none invented.
C1_MergedDatesAreUnion ==
    pc # "merge" =>
        DatesOf(merged_df) = DatesOf(income_df) \cup DatesOf(earnings_df)
                               \cup DatesOf(balance_df) \cup DatesOf(cashflow_df)

\* a date only the balance sheet has and a date only the income statement has,
\* earnings empty, both dates merged
C1_Witness ==
    /\ pc = "market_cap"
    /\ IsEmpty(earnings_df)
    /\ DatesOf(income_df) = {100}
    /\ DatesOf(balance_df) = {120}
    /\ DatesOf(merged_df) = {100, 120}

\* C2: one row per (ticker, fiscalDateEnding) after merge_all_data, after the
\* market-cap join and after calculate_all_metrics.
C2_OneRowPerDate ==
    /\ NoDuplicateDates(merged_df)
    /\ NoDuplicateDates(final_df)
    /\ (pc = "done" => NoDuplicateDates(metrics_df))

\* C3: four empty sources give pd.DataFrame(), no row of nulls, and the ticker
\* is skipped with no output rows.
C3_AllEmptyGivesEmpty ==
    (pc # "merge" /\ AllSourcesEmpty) =>
        /\ merged_df = EmptyFrame
        /\ pc = "skipped"
        /\ final_df = EmptyFrame
        /\ metrics_df = EmptyFrame

C3_Witness == pc = "skipped" /\ AllSourcesEmpty /\ merged_df.rows = <<>>

\* C4: every row calculate_historical_market_cap annotates carries a price date
\* at most W days from the fiscal period end, in either direction.
C4_PriceWithinWindow ==
    (pc \in {"saved", "done"} /\ ~IsNone(historical_market_cap_df)) =>
        \A r \in Range(historical_market_cap_df.rows) :
            /\ r["priceDate"] \in DOMAIN prices_df.close
            /\ r["priceDate"] - r[KeyCol] <= W
            /\ r[KeyCol] - r["priceDate"] <= W

\* a row matched on the last day of the window while the series also holds the
\* day after it, and a row matched backwards
C4_Witness ==
    /\ pc = "saved"
    /\ ~IsNone(historical_market_cap_df)
    /\ \E r \in Range(historical_market_cap_df.rows) :
          /\ r["priceDate"] = r[KeyCol] + W
          /\ r[KeyCol] + W + 1 \in DOMAIN prices_df.close

Denominator(ratio) ==
    CASE ratio = "netIncomeMarginPct" -> "totalRevenue"
      [] ratio = "epsSurprisePct" -> "estimatedEPS"
      [] ratio = "debtToEquityRatio" -> "totalShareholderEquity"
      [] ratio = "cashRatio" -> "shortTermDebt"
      [] ratio = "rdIntensityPct" -> "totalRevenue"
      [] ratio = "buybackRatio" -> "netIncome"
      [] ratio = "peRatio" -> "netIncome"
      [] ratio = "psRatio" -> "totalRevenue"
      [] ratio = "priceToBookRatio" -> "totalShareholderEquity"

Ratios == {"netIncomeMarginPct", "epsSurprisePct", "debtToEquityRatio", "cashRatio",
           "rdIntensityPct", "buybackRatio", "peRatio", "psRatio", "priceToBookRatio"}

Cell(r, c) == IF c \in DOMAIN r THEN r[c] ELSE NULL

\* C5: a derived ratio whose denominator is zero or null is null; the call does
\* not raise and no ratio is +inf or -inf.
C5_RatioNullOnZeroDenominator ==
    (pc = "done" /\ {"totalRevenue", "netIncome"} \subseteq final_df.cols) =>
        /\ ~metrics_df.raised
        /\ \A r \in Range(metrics_df.rows) : \A q \in Ratios :
              /\ ~IsInf(r[q])
              /\ (IsNull(Cell(r, Denominator(q))) \/ IsZero(Cell(r, Denominator(q))))
                    => IsNull(r[q])

Inputs(c) ==
    CASE c = "revenueGrowthPct" -> {"totalRevenue"}
      [] c = "netIncomeMarginPct" -> {"netIncome", "totalRevenue"}
      [] c = "epsSurprisePct" -> {"reportedEPS", "estimatedEPS"}
      [] c = "freeCashFlow" -> {"operatingCashflow", "capitalExpenditures"}
      [] c = "debtToEquityRatio" -> {"totalLiabilities", "totalShareholderEquity"}
      [] c = "cashRatio" -> {"cashAndCashEquivalentsAtCarryingValue", "shortTermDebt"}
      [] c = "rdIntensityPct" -> {"researchAndDevelopment", "totalRevenue"}
      [] c = "buybackRatio" -> {"proceedsFromRepurchaseOfEquity", "netIncome"}
      [] c = "peRatio" -> {"marketCap", "netIncome"}
      [] c = "psRatio" -> {"marketCap", "totalRevenue"}
      [] c = "priceToBookRatio" -> {"marketCap", "totalShareholderEquity"}

\* C6: calculate_all_metrics does not raise on an absent input; a derived field
\* with an input missing (a null cell or an absent column) is null and every
\* input row is kept.
C6_AbsentInputNeverRaises ==
    pc = "done" =>
        /\ ~metrics_df.raised
        /\ Len(metrics_df.rows) = Len(final_df.rows)
        /\ \A r \in Range(metrics_df.rows) : \A c \in DerivedCols :
              (\E x \in Inputs(c) : IsNull(Cell(r, x))) => IsNull(r[c])

(***************************************************************************)
(* The analysis side: winsorize_series applied twice, latest_cross_section *)
(* on a panel, build_group_indices on a panel                              *)
(***************************************************************************)
\* longest series
MaxLen == 4

\* most rows of a panel given to build_group_indices
MaxRows == 3

\* most rows of a panel given to latest_cross_section
MaxPanel == 3

SeriesVals == {NULL, Num(0), Num(1), Num(5)}

\* (lower_pct, upper_pct): the defaults 0.01 and 0.99, and others
PctPairs == {<<Rat(1, 100), Rat(99, 100)>>, <<Rat(1, 3), Rat(2, 3)>>,
             <<Num(0), Num(1)>>, <<Rat(1, 2), Rat(1, 2)>>}

PanelDates == {1, 2, 3}

StartDate == Min(PanelDates) + 1

\* the group attach_groups gives each ticker
GroupOf(t) == IF t = "CCC" THEN DEFAULT_GROUP_LABEL ELSE "AI"

PanelRow(t, d, ret, mcap) ==
    [fixed_ticker |-> t, Date |-> d, Total_Return |-> ret,
     Market_Capitalization |-> mcap, group |-> GroupOf(t)]

\* the panel with one row per cell <<ticker, date>> of C, values f[cell],
\* sorted by ticker and date as load_all_excels leaves it
PanelOf(C, f) ==
    LET keys == SetToSortedSeq({Rank(c[1]) * 100 + c[2] : c \in C})
        cell(k) == CHOOSE c \in C : Rank(c[1]) * 100 + c[2] = k
    IN  [i \in 1..Len(keys) |->
            PanelRow(cell(keys[i])[1], cell(keys[i])[2],
                     f[cell(keys[i])][1], f[cell(keys[i])][2])]

Panels(dates, rets, caps, n) ==
    UNION {{PanelOf(C, f) : f \in [C -> rets \X caps]} :
              C \in Subsets(Range(TickerSeq) \X dates, n)}

IdlePipeline ==
    /\ remaining_tickers = <<>> /\ feeds = <<>> /\ alpha = <<>>
    /\ reports = <<>>
    /\ API_KEYS = <<>> /\ api_call_counts = <<>> /\ current_api_key_index = 0 /\ fetch_no = 0 /\ result = FALSE /\ exhausted = FALSE
    /\ group_map_csv = <<>> /\ mapping = <<>> /\ attached = <<>>
    /\ income_df = EmptyFrame /\ earnings_df = EmptyFrame
    /\ balance_df = EmptyFrame /\ cashflow_df = EmptyFrame
    /\ prices_df = None /\ NoOutputs

InitWinsor ==
    /\ pc = "winsorize"
    /\ series \in SeqsUpTo(SeriesVals, MaxLen)
    /\ pct \in PctPairs
    /\ w1 = <<>> /\ w2 = <<>>
    /\ panel = <<>> /\ idx_panel = <<>> /\ eq = <<>> /\ cap = <<>> /\ latest = <<>>
    /\ IdlePipeline

\* df[c] = winsorize_series(df[c])
WinsorizeStep ==
    /\ pc = "winsorize"
    /\ w1' = winsorize_series(series, pct[1], pct[2])
    /\ pc' = "winsorized"
    /\ UNCHANGED <<income_df, earnings_df, balance_df, cashflow_df, prices_df,
                   merged_df, historical_market_cap_df, final_df, metrics_df,
                   series, pct, w2, panel, idx_panel, eq, cap, latest, groupVars, keyVars, fetchVars, batchVars>>

\* the clipped series winsorized again at the same percentiles
RewinsorizeStep ==
    /\ pc = "winsorized"
    /\ w2' = winsorize_series(w1, pct[1], pct[2])
    /\ pc' = "rewinsorized"
    /\ UNCHANGED <<income_df, earnings_df, balance_df, cashflow_df, prices_df,
                   merged_df, historical_market_cap_df, final_df, metrics_df,
                   series, pct, w1, panel, idx_panel, eq, cap, latest, groupVars, keyVars, fetchVars, batchVars>>

NextWinsor == WinsorizeStep \/ RewinsorizeStep

SpecWinsor == InitWinsor /\ [][NextWinsor]_vars

\* returns of every kind, the caps all alike
InitIndex ==
    /\ pc = "index"
    /\ panel \in Panels(PanelDates, {NULL, Num(-100), Num(-50), Num(10)}, {Num(3)},
                        MaxRows)
    /\ idx_panel = <<>> /\ eq = <<>> /\ cap = <<>> /\ latest = <<>>
    /\ series = <<>> /\ pct = <<>> /\ w1 = <<>> /\ w2 = <<>>
    /\ IdlePipeline

\* caps of every kind, all rows in the window
InitGroup ==
    /\ pc = "index"
    /\ panel \in Panels(PanelDates \ {Min(PanelDates)}, {Num(10)},
                        {NULL, Num(0), Num(-1), Num(1), Num(3)}, MaxRows)
    /\ idx_panel = <<>> /\ eq = <<>> /\ cap = <<>> /\ latest = <<>>
    /\ series = <<>> /\ pct = <<>> /\ w1 = <<>> /\ w2 = <<>>
    /\ IdlePipeline

\* build_group_indices, line 94
BuildTickerIndexStep ==
    /\ pc = "index"
    /\ idx_panel' = build_ticker_index(panel, StartDate)
    /\ pc' = "aggregate"
    /\ UNCHANGED <<income_df, earnings_df, balance_df, cashflow_df, prices_df,
                   merged_df, historical_market_cap_df, final_df, metrics_df,
                   series, pct, w1, w2, panel, eq, cap, latest, groupVars, keyVars, fetchVars, batchVars>>

\* build_group_indices, lines 96-97
AggregateStep ==
    /\ pc = "aggregate"
    /\ eq' = aggregate_group_index(idx_panel, "equal")
    /\ cap' = aggregate_group_index(idx_panel, "cap")
    /\ pc' = "grouped"
    /\ UNCHANGED <<income_df, earnings_df, balance_df, cashflow_df, prices_df,
                   merged_df, historical_market_cap_df, final_df, metrics_df,
                   series, pct, w1, w2, panel, idx_panel, latest, groupVars, keyVars, fetchVars, batchVars>>

NextIndex == BuildTickerIndexStep \/ AggregateStep

SpecIndex == InitIndex /\ [][NextIndex]_vars

SpecGroup == InitGroup /\ [][NextIndex]_vars

\* any rows in any order, a (ticker, date) pair possibly more than once
InitCross ==
    /\ pc = "cross"
    /\ panel \in SeqsUpTo({PanelRow(t, d, ret, NULL) :
                              t \in {TickerSeq[1], TickerSeq[2]},
                              d \in PanelDates \ {Max(PanelDates)},
                              ret \in {Num(1), Num(2)}}, MaxPanel)
    /\ idx_panel = <<>> /\ eq = <<>> /\ cap = <<>> /\ latest = <<>>
    /\ series = <<>> /\ pct = <<>> /\ w1 = <<>> /\ w2 = <<>>
    /\ IdlePipeline

\* latest = latest_cross_section(panel)
LatestStep ==
    /\ pc = "cross"
    /\ latest' = latest_cross_section(panel)
    /\ pc' = "latest"
    /\ UNCHANGED <<income_df, earnings_df, balance_df, cashflow_df, prices_df,
                   merged_df, historical_market_cap_df, final_df, metrics_df,
                   series, pct, w1, w2, panel, idx_panel, eq, cap, groupVars, keyVars, fetchVars, batchVars>>

NextCross == LatestStep

SpecCross == InitCross /\ [][NextCross]_vars

(***************************************************************************)
(* Properties of the analysis side                                         *)
(***************************************************************************)
\* C7 as claimed: winsorizing the winsorized series again at the same
\* percentiles changes nothing.
C7_RewinsorizeNoOp == pc = "rewinsorized" => w2 = w1

QuantilesOnData ==
    /\ Quantile(series, pct[1]) \in Range(series)
    /\ Quantile(series, pct[2]) \in Range(series)

\* C7 amended: winsorizing again changes nothing when both quantiles of the
\* series are values of the series (no interpolation between two different
\* values).
C7_NoOpWhenQuantilesOnData ==
    (pc = "rewinsorized" /\ QuantilesOnData) => w2 = w1

\* both quantiles on data, lo < hi, and the first pass did clip
C7_Witness ==
    /\ pc = "rewinsorized"
    /\ QuantilesOnData
    /\ Less(Quantile(series, pct[1]), Quantile(series, pct[2]))
    /\ w1 # series
    /\ w2 = w1

InWindow(t) == {r \in Range(panel) : r.fixed_ticker = t /\ r.Date >= StartDate}

\* C8: the index of every ticker with a row in the window is exactly 100 at
\* the ticker's earliest date in the window.
C8_FirstIndexIs100 ==
    pc \in {"aggregate", "grouped"} =>
        \A t \in TickersOf(panel) :
            InWindow(t) # {} =>
                \E r \in Range(idx_panel) :
                    /\ r.fixed_ticker = t
                    /\ r.Date = Min({x.Date : x \in InWindow(t)})
                    /\ r.index = Num(100)

NoPositiveCap(g) ==
    \A i \in 1..Len(g) :
        LET c == g[i].Market_Capitalization
        IN  IsNull(c) \/ (IsFin(c) /\ c.n <= 0)

ValueAt(agg, g, d) ==
    (CHOOSE a \in Range(agg) : a.group = g /\ a.Date = d).group_index

\* C9: in a cell where no ticker has a positive market cap, the cap-weighted
\* value is the equal-weighted value of the cell, the plain mean of the index
\* values, and is not null.
C9_CapFallsBackToEqual ==
    pc = "grouped" =>
        \A a \in Range(cap) :
            LET g == CellRows(idx_panel, a.group, a.Date)
            IN  NoPositiveCap(g) =>
                    /\ a.group_index = ValueAt(eq, a.group, a.Date)
                    /\ IsFin(a.group_index)
                    /\ Mul(a.group_index, Num(Len(g)))
                          = SumCells([i \in 1..Len(g) |-> g[i].index])

\* a cell of two tickers with different index values, one cap negative and
\* one missing
C9_Witness ==
    /\ pc = "grouped"
    /\ \E a \in Range(cap) :
          LET g == CellRows(idx_panel, a.group, a.Date)
          IN  /\ Len(g) = 2
              /\ g[1].index # g[2].index
              /\ g[1].Market_Capitalization = Num(-1)
              /\ IsNull(g[2].Market_Capitalization)
              /\ a.group_index = ValueAt(eq, a.group, a.Date)

TradingDays == IF IsNone(prices_df) THEN {} ELSE DOMAIN prices_df.close

Forward(d) == {p \in TradingDays : p - d >= 0 /\ p - d <= W}

Backward(d) == {p \in TradingDays : d - p >= 0 /\ d - p <= W}

HasShares(r) ==
    /\ "commonStockSharesOutstanding" \in DOMAIN r
    /\ ~IsNull(ToNumeric(r["commonStockSharesOutstanding"]))

Aligned == pc \in {"saved", "done"}

\* C11: a row with a trading day in the W days from its fiscal date on is matched
\* to the earliest such day, whatever lies before the fiscal date; only a row
\* with none is matched backwards, to the latest trading day of the W days up
\* to its fiscal date.
C11_ForwardBeforeBackward ==
    (Aligned /\ ~IsNone(historical_market_cap_df)) =>
        \A r \in Range(historical_market_cap_df.rows) :
            IF Forward(r[KeyCol]) # {}
            THEN r["priceDate"] = Min(Forward(r[KeyCol]))
            ELSE /\ Backward(r[KeyCol]) # {}
                 /\ r["priceDate"] = Max(Backward(r[KeyCol]))

\* a row matched to the last day of the forward window although a trading day
\* lies nearer before the fiscal date
C11_Witness ==
    /\ Aligned
    /\ ~IsNone(historical_market_cap_df)
    /\ \E r \in Range(historical_market_cap_df.rows) :
          /\ r["priceDate"] = r[KeyCol] + W
          /\ \E p \in TradingDays : p < r[KeyCol] /\ r[KeyCol] - p < W

\* process_ticker is past line 577 with rows to annotate
AfterAlign == Aligned \/ (pc = "skipped" /\ ~IsEmpty(merged_df))

NoWindow(d) == Forward(d) = {} /\ Backward(d) = {}

\* the annotation of a final row is null: no cap, no price, no price date
NullAnnotation(r) ==
    /\ IsNull(Cell(r, "marketCap"))
    /\ IsNull(Cell(r, "stockPrice"))
    /\ "priceDate" \notin DOMAIN r

\* every merged row is a final row, its merged cells as they were
MergedRowsKept ==
    \A m \in Range(merged_df.rows) : \E r \in Range(final_df.rows) :
        \A c \in DOMAIN m : c \in DOMAIN r /\ r[c] = m[c]

\* C12: a row with shares outstanding and no trading day within W days of its
\* fiscal date, before or after, has a null cap, price and price date among
\* the ticker's final rows, and is one of them.
C12_NoMatchStaysNull ==
    AfterAlign =>
        /\ pc # "skipped"
        /\ \A r \in Range(final_df.rows) :
              (HasShares(r) /\ NoWindow(r[KeyCol])) => NullAnnotation(r)
        /\ MergedRowsKept

\* a price series one quarter is matched to while the other quarter, with
\* shares outstanding, lies more than W days from it
C12_Witness ==
    /\ pc = "saved"
    /\ \E r \in Range(final_df.rows) :
          /\ HasShares(r) /\ NoWindow(r[KeyCol])
          /\ TradingDays # {}
          /\ NullAnnotation(r)
    /\ \E r \in Range(final_df.rows) : ~IsNull(Cell(r, "marketCap"))

\* the trading day a fiscal date is matched to, where there is one
Matched(d) == IF Forward(d) # {} THEN Min(Forward(d)) ELSE Max(Backward(d))

\* C13: a final row with shares outstanding and a trading day in its window
\* carries marketCap = shares x close of the matched day and that day as its
\* price date.
C13_CapAndPriceDateRecorded ==
    Aligned =>
        \A r \in Range(final_df.rows) :
            (HasShares(r) /\ ~NoWindow(r[KeyCol])) =>
                /\ Cell(r, "marketCap")
                      = Mul(ToNumeric(r["commonStockSharesOutstanding"]),
                            prices_df.close[Matched(r[KeyCol])])
                /\ "priceDate" \in DOMAIN r
                /\ r["priceDate"] = Matched(r[KeyCol])

\* C14: a row without shares outstanding gets no annotation, whatever the
\* price series holds, and the join keeps the merged rows as they are: none
\* removed, none added.
C14_NullSharesSkipped ==
    AfterAlign =>
        /\ \A r \in Range(final_df.rows) : ~HasShares(r) => NullAnnotation(r)
        /\ Len(final_df.rows) = Len(merged_df.rows)
        /\ MergedRowsKept

\* C15: with no price series, or an empty one, the ticker is not skipped, its
\* final rows are the merged rows and none has an annotation.
C15_NoPricesNoAnnotation ==
    (AfterAlign /\ TradingDays = {}) =>
        /\ pc # "skipped"
        /\ final_df = merged_df
        /\ \A r \in Range(final_df.rows) : NullAnnotation(r)

\* an empty price series and a quarter with shares outstanding, saved
C15_Witness ==
    /\ pc = "saved"
    /\ ~IsNone(prices_df) /\ TradingDays = {}
    /\ \E r \in Range(final_df.rows) : HasShares(r)
    /\ final_df = merged_df

(***************************************************************************)
(* calculate_all_metrics on the rows of several tickers in any order, as   *)
(* load_alpha_data concatenates the saved files                            *)
(***************************************************************************)
\* most rows of an input of calculate_all_metrics whose order varies
MaxGrowthRows == 3

GrowthDates == {100, 120, 140}

RevenueVals == {NULL, Num(100), Num(120)}

GrowthCols == {"ticker", KeyCol, "totalRevenue", "netIncome"}

GrowthRow(t, d, rev) ==
    [c \in GrowthCols |->
        CASE c = "ticker" -> t
          [] c = KeyCol -> d
          [] c = "totalRevenue" -> rev
          [] c = "netIncome" -> Num(5)]

\* the inputs of at most n rows
GrowthInputs(n) ==
    {[cols |-> GrowthCols, rows |-> q] :
        q \in SeqsUpTo({GrowthRow(t, d, rev) : t \in {TickerSeq[1], TickerSeq[2]},
                                                d \in GrowthDates,
                                                rev \in RevenueVals},
                       n) \ {<<>>}}

InitGrowth ==
    /\ pc = "saved"
    /\ income_df = EmptyFrame /\ earnings_df = EmptyFrame
    /\ balance_df = EmptyFrame /\ cashflow_df = EmptyFrame
    /\ prices_df = None
    /\ merged_df = EmptyFrame /\ historical_market_cap_df = None
    /\ final_df \in GrowthInputs(MaxGrowthRows)
    /\ metrics_df = EmptyFrame
    /\ Idle

SpecGrowth == InitGrowth /\ [][NextMetrics]_vars

\* (revenue[t] / revenue[t-1] - 1) x 100, null when either revenue is missing
Growth(rev, prev) ==
    IF IsNull(rev) \/ IsNull(prev) THEN NULL
    ELSE Mul(Sub(Div(rev, prev), Num(1)), Num(100))

\* the rows of r's ticker with an earlier fiscal date
Earlier(rows, r) ==
    {q \in Range(rows) : q["ticker"] = r["ticker"] /\ q[KeyCol] < r[KeyCol]}

\* C16: in any input order, revenueGrowthPct of a row is the growth of its
\* revenue over the revenue of the row of the same ticker with the fiscal date
\* just before its own, null when either revenue is missing and null on a row
\* with no earlier fiscal date of its ticker.
C16_GrowthOverPrecedingQuarter ==
    pc = "done" =>
        /\ ~metrics_df.raised
        /\ Len(metrics_df.rows) = Len(final_df.rows)
        /\ \A r \in Range(metrics_df.rows) :
              LET before == Earlier(metrics_df.rows, r)
              IN  IF before = {} THEN IsNull(r["revenueGrowthPct"])
                  ELSE \A q \in before :
                          q[KeyCol] = Max({x[KeyCol] : x \in before})
                              => r["revenueGrowthPct"]
                                    = Growth(r["totalRevenue"], q["totalRevenue"])

\* the derived fields that read marketCap
CapRatios == {"peRatio", "psRatio", "priceToBookRatio"}

\* an input row has no market cap: the cell is missing or the column is
NoMarketCap(r) == IsNull(ToNumeric(Cell(r, "marketCap")))

\* every input of the derived field c is there in the input row r, and its
\* denominator is not zero
Computable(r, c) ==
    /\ \A x \in Inputs(c) : ~IsNull(ToNumeric(Cell(r, x)))
    /\ c \in Ratios => ~IsZero(ToNumeric(Cell(r, Denominator(c))))

\* C17: a row without a market cap has null peRatio, psRatio and
\* priceToBookRatio after calculate_all_metrics, and its other derived fields
\* have their values: the debt-to-equity ratio is liabilities over equity, and
\* no field whose inputs are all there is null.
C17_NullCapNullValuation ==
    (pc = "done" /\ {"totalRevenue", "netIncome"} \subseteq final_df.cols) =>
        /\ ~metrics_df.raised
        /\ \A r \in Range(final_df.rows) : NoMarketCap(r) =>
              \E q \in Range(metrics_df.rows) :
                  /\ q[KeyCol] = r[KeyCol]
                  /\ \A c \in CapRatios : IsNull(q[c])
                  /\ \A c \in DerivedCols \ (CapRatios \cup {"revenueGrowthPct"}) :
                        Computable(r, c) => ~IsNull(q[c])
                  /\ Computable(r, "debtToEquityRatio") =>
                        q["debtToEquityRatio"] = Div(r["totalLiabilities"],
                                                     r["totalShareholderEquity"])

\* a row whose market cap is missing beside a row that has one, the balance
\* sheet there: the first has no price-to-book ratio but a debt-to-equity
\* ratio, the second has both
C17_Witness ==
    /\ pc = "done"
    /\ ~metrics_df.raised
    /\ "marketCap" \in final_df.cols
    /\ \E r \in Range(final_df.rows) : NoMarketCap(r)
    /\ \E q \in Range(metrics_df.rows) :
          /\ IsNull(q["marketCap"]) /\ IsNull(q["priceToBookRatio"])
          /\ ~IsNull(q["debtToEquityRatio"])
    /\ \E q \in Range(metrics_df.rows) :
          ~IsNull(q["marketCap"]) /\ ~IsNull(q["priceToBookRatio"])

(***************************************************************************)
(* Properties of winsorize_series and of the group indices                 *)
(***************************************************************************)
Winsorized == pc \in {"winsorized", "rewinsorized"}

\* the quantiles of the input series at the two percentiles
Lo == Quantile(series, pct[1])

Hi == Quantile(series, pct[2])

\* C18: winsorize_series keeps the length and the nulls of the series and puts
\* every other value into [Q(lower), Q(upper)], the quantiles taken over the
\* non-null values and so lying between the least and the largest of them: a
\* value inside is kept, a value below becomes Q(lower), a value above
\* becomes Q(upper); an empty series comes back as it is.
C18_ClipsIntoQuantileRange ==
    Winsorized =>
        /\ Len(w1) = Len(series)
        /\ series = <<>> => w1 = <<>>
        /\ \A i \in 1..Len(series) :
              IF IsNull(series[i]) THEN IsNull(w1[i])
              ELSE /\ \E j, k \in 1..Len(series) :
                         /\ ~IsNull(series[j]) /\ ~IsNull(series[k])
                         /\ Leq(series[j], Lo) /\ Leq(Lo, Hi) /\ Leq(Hi, series[k])
                   /\ Leq(Lo, w1[i]) /\ Leq(w1[i], Hi)
                   /\ (Leq(Lo, series[i]) /\ Leq(series[i], Hi)) => w1[i] = series[i]
                   /\ Less(series[i], Lo) => w1[i] = Lo
                   /\ Less(Hi, series[i]) => w1[i] = Hi

\* a series with a null, a value raised to Q(lower), a value lowered to
\* Q(upper) and a value strictly between the two, kept
C18_Witness ==
    /\ pc = "winsorized"
    /\ \E i \in 1..Len(series) : IsNull(series[i]) /\ IsNull(w1[i])
    /\ \E i \in 1..Len(series) :
          ~IsNull(series[i]) /\ Less(series[i], Lo) /\ w1[i] = Lo
    /\ \E i \in 1..Len(series) :
          ~IsNull(series[i]) /\ Less(Hi, series[i]) /\ w1[i] = Hi
    /\ \E i \in 1..Len(series) :
          ~IsNull(series[i]) /\ Less(Lo, series[i]) /\ Less(series[i], Hi)
             /\ w1[i] = series[i]

\* the rows of the indexed panel in the cell of an aggregate row
RowsOf(c) == SelectSeq(idx_panel, LAMBDA r : r.group = c.group /\ r.Date = c.Date)

HasPositiveCap(r) ==
    IsFin(ToNumeric(r.Market_Capitalization)) /\ ToNumeric(r.Market_Capitalization).n > 0

\* the sum of the positive caps of the rows g
PositiveCapSum(g) ==
    SumCells([i \in 1..Len(g) |-> IF HasPositiveCap(g[i])
                                  THEN ToNumeric(g[i].Market_Capitalization)
                                  ELSE Num(0)])

\* cap / sum of the positive caps for a row with a positive cap, 0 otherwise
Weight(g, i) ==
    IF HasPositiveCap(g[i])
    THEN Div(ToNumeric(g[i].Market_Capitalization), PositiveCapSum(g))
    ELSE Num(0)

\* C19: in every cell of the cap-weighted index with a positive cap the value
\* is the sum of weight x index over the rows of the cell, the weight of a
\* row its cap over the sum of the positive caps of the cell, 0 for a null,
\* zero or negative cap; the weights are not negative and sum to 1.
C19_CapWeightedSum ==
    pc = "grouped" =>
        \A c \in Range(cap) :
            LET g == RowsOf(c)
            IN  (\E i \in 1..Len(g) : HasPositiveCap(g[i])) =>
                   /\ c.group_index
                         = SumCells([i \in 1..Len(g) |-> Mul(Weight(g, i), g[i].index)])
                   /\ group_cap_weights(g) = [w |-> [i \in 1..Len(g) |-> Weight(g, i)]]
                   /\ \A i \in 1..Len(g) : Leq(Num(0), Weight(g, i))
                   /\ SumCells([i \in 1..Len(g) |-> Weight(g, i)]) = Num(1)

\* a cell of two tickers with different indices and different positive caps,
\* its value off the plain mean
C19_Witness ==
    /\ pc = "grouped"
    /\ \E c \in Range(cap) :
          LET g == RowsOf(c)
          IN  /\ Len(g) = 2
              /\ HasPositiveCap(g[1]) /\ HasPositiveCap(g[2])
              /\ g[1].Market_Capitalization # g[2].Market_Capitalization
              /\ g[1].index # g[2].index
              /\ c.group_index # Mean(<<g[1].index, g[2].index>>)

\* C20: every cell of the equal-weighted index is the arithmetic mean of the
\* index over the rows of the group on that date, and there is one cell for
\* each (group, date) that has rows and no other.
C20_EqualWeightedMean ==
    pc = "grouped" =>
        /\ \A c \in Range(eq) :
              LET g == RowsOf(c)
              IN  /\ g # <<>>
                  /\ c.group_index
                        = Div(SumCells([i \in 1..Len(g) |-> g[i].index]), Num(Len(g)))
        /\ \A r \in Range(idx_panel) :
              \E c \in Range(eq) : c.group = r.group /\ c.Date = r.Date
        /\ \A i, j \in 1..Len(eq) :
              (eq[i].group = eq[j].group /\ eq[i].Date = eq[j].Date) => i = j

\* a cell of two tickers with different indices, and an earlier cell of the
\* same group where one of the two has no row
C20_Witness ==
    /\ pc = "grouped"
    /\ \E c, e \in Range(eq) :
          /\ c.group = e.group /\ e.Date < c.Date
          /\ Len(RowsOf(c)) = 2 /\ Len(RowsOf(e)) = 1
          /\ RowsOf(c)[1].index # RowsOf(c)[2].index
          /\ c.group_index # e.group_index

(***************************************************************************)
(* data_prep.py: read_group_map, attach_groups                             *)
(***************************************************************************)
\* a missing cell of a CSV read with dtype=str
NaN == "NaN"

\* str.strip() on the strings the mapping files carry; a missing cell stays
\* missing
StrStrip(s) ==
    CASE s = " AAA" -> "AAA"
      [] s = "BBB " -> "BBB"
      [] s = " AI " -> "AI"
      [] s = " group" -> "group"
      [] OTHER -> s

\* drop_duplicates keeping the first row of every ticker
DropDuplicates_First(rows) ==
    LET keep == {i \in 1..Len(rows) :
                    \A j \in 1..(i - 1) : rows[j].fixed_ticker # rows[i].fixed_ticker}
        ord  == SetToSortedSeq(keep)
    IN  [k \in 1..Len(ord) |-> rows[ord[k]]]

\* df.drop_duplicates(subset=["fixed_ticker"], keep="last")
DropDuplicates(rows) ==
    LET keep == {i \in 1..Len(rows) :
                    \A j \in (i + 1)..Len(rows) : rows[j].fixed_ticker # rows[i].fixed_ticker}
        ord  == SetToSortedSeq(keep)
    IN  [k \in 1..Len(ord) |-> rows[ord[k]]]

\* read_group_map: Raised when a required column is missing after the header
\* is stripped, else the stripped rows without duplicate tickers
read_group_map(csv) ==
    LET cols == {StrStrip(c) : c \in csv.cols}
    IN  IF ~({"fixed_ticker", "group"} \subseteq cols) THEN Raised
        ELSE [cols |-> cols,
              rows |-> DropDuplicates([i \in 1..Len(csv.rows) |->
                          [fixed_ticker |-> StrStrip(csv.rows[i].fixed_ticker),
                           group        |-> StrStrip(csv.rows[i].group)]])]

WithGroup(r, g) == [c \in (DOMAIN r) \cup {"group"} |-> IF c = "group" THEN g ELSE r[c]]

\* MergeGroups with how="inner": rows of unmapped tickers are lost
MergeGroups_Inner(rows, gm) ==
    Flatten([i \in 1..Len(rows) |->
        LET m == SelectRows(gm, "fixed_ticker", rows[i].fixed_ticker)
        IN  [j \in 1..Len(m) |-> WithGroup(rows[i], m[j].group)]])

\* panel.merge(group_map, on="fixed_ticker", how="left"): every panel row in
\* its order, once per mapping row of its ticker, the group missing when the
\* mapping has none
MergeGroups(rows, gm) ==
    Flatten([i \in 1..Len(rows) |->
        LET m == SelectRows(gm, "fixed_ticker", rows[i].fixed_ticker)
        IN  IF m = <<>> THEN <<WithGroup(rows[i], NaN)>>
            ELSE [j \in 1..Len(m) |-> WithGroup(rows[i], m[j].group)]])

\* panel["group"].fillna(DEFAULT_GROUP_LABEL)
FillNa(rows) ==
    [i \in 1..Len(rows) |->
        IF rows[i].group = NaN THEN WithGroup(rows[i], DEFAULT_GROUP_LABEL) ELSE rows[i]]

attach_groups(rows, gm) == FillNa(MergeGroups(rows, gm))

MaxMapRows == 2
MaxRawRows == 2

CsvTickers == {"AAA", " AAA", "BBB "}
CsvGroups == {" AI ", "Infra", NaN}
CsvHeaders == {{"fixed_ticker", " group"}, {"fixed_ticker", "sector"}}

CsvFile(cols, rows) == [cols |-> cols, rows |-> rows]

\* the raw panel load_all_excels returns: no group column yet
RawRows == {[fixed_ticker |-> t, Date |-> 1] : t \in {"AAA", "BBB", "DDD"}}

InitGroupMap ==
    /\ pc = "read_map"
    /\ group_map_csv \in {CsvFile(h, q) :
            h \in CsvHeaders,
            q \in SeqsUpTo({[fixed_ticker |-> t, group |-> g] :
                               t \in CsvTickers, g \in CsvGroups}, MaxMapRows)}
    /\ panel \in SeqsUpTo(RawRows, MaxRawRows)
    /\ mapping = <<>> /\ attached = <<>>
    /\ API_KEYS = <<>> /\ api_call_counts = <<>> /\ current_api_key_index = 0
    /\ fetch_no = 0 /\ result = FALSE /\ exhausted = FALSE
    /\ reports = <<>>
    /\ remaining_tickers = <<>> /\ feeds = <<>> /\ alpha = <<>>
    /\ idx_panel = <<>> /\ eq = <<>> /\ cap = <<>> /\ latest = <<>>
    /\ series = <<>> /\ pct = <<>> /\ w1 = <<>> /\ w2 = <<>>
    /\ income_df = EmptyFrame /\ earnings_df = EmptyFrame
    /\ balance_df = EmptyFrame /\ cashflow_df = EmptyFrame
    /\ prices_df = None /\ NoOutputs

\* build_panel line 197: mapping = read_group_map(group_map_csv)
ReadGroupMapStep ==
    /\ pc = "read_map"
    /\ mapping' = read_group_map(group_map_csv)
    /\ pc' = IF "raised" \in DOMAIN read_group_map(group_map_csv)
             THEN "raised" ELSE "attach"
    /\ UNCHANGED <<income_df, earnings_df, balance_df, cashflow_df, prices_df,
                   merged_df, historical_market_cap_df, final_df, metrics_df,
                   series, pct, w1, w2, panel, idx_panel, eq, cap, latest,
                   group_map_csv, attached, keyVars, fetchVars, batchVars>>

\* build_panel line 198: panel = attach_groups(raw, mapping)
AttachGroupsStep ==
    /\ pc = "attach"
    /\ attached' = attach_groups(panel, mapping.rows)
    /\ pc' = "attached"
    /\ UNCHANGED <<income_df, earnings_df, balance_df, cashflow_df, prices_df,
                   merged_df, historical_market_cap_df, final_df, metrics_df,
                   series, pct, w1, w2, panel, idx_panel, eq, cap, latest,
                   group_map_csv, mapping, keyVars, fetchVars, batchVars>>

NextGroupMap == ReadGroupMapStep \/ AttachGroupsStep

SpecGroupMap == InitGroupMap /\ [][NextGroupMap]_vars

MappedTickers == {mapping.rows[i].fixed_ticker : i \in DOMAIN mapping.rows}

GroupFor(t) == (CHOOSE i \in DOMAIN mapping.rows : mapping.rows[i].fixed_ticker = t)

\* C21: attach_groups keeps every panel row exactly once and in order with
\* its own fields, every row gets a group that is not missing, a ticker the
\* mapping gives a group gets that group, and a ticker the mapping does not
\* cover (or covers with an empty group cell) gets DEFAULT_GROUP_LABEL.
C21_AttachKeepsRowsAndLabels ==
    pc = "attached" =>
        /\ Len(attached) = Len(panel)
        /\ \A i \in 1..Len(panel) :
              /\ \A c \in DOMAIN panel[i] : attached[i][c] = panel[i][c]
              /\ attached[i].group # NaN
              /\ LET t == panel[i].fixed_ticker
                 IN  IF t \in MappedTickers /\ mapping.rows[GroupFor(t)].group # NaN
                     THEN attached[i].group = mapping.rows[GroupFor(t)].group
                     ELSE attached[i].group = DEFAULT_GROUP_LABEL

C21_Witness ==
    /\ pc = "attached"
    /\ Len(panel) = 2
    /\ panel[1].fixed_ticker \in MappedTickers
    /\ attached[1].group = "Infra"
    /\ panel[2].fixed_ticker \notin MappedTickers
    /\ attached[2].group = DEFAULT_GROUP_LABEL

StrippedTicker(i) == StrStrip(group_map_csv.rows[i].fixed_ticker)

LastOccurrence(t) ==
    Max({i \in 1..Len(group_map_csv.rows) : StrippedTicker(i) = t})

\* C22: the mapping read from the file has at most one row per ticker, a row
\* for every ticker of the file, and each ticker's group is the stripped
\* group of its last occurrence in the file, occurrences that differ only by
\* surrounding whitespace counting as the same ticker.
C22_LastOccurrenceWins ==
    pc \in {"attach", "attached"} =>
        /\ \A i, j \in DOMAIN mapping.rows :
              mapping.rows[i].fixed_ticker = mapping.rows[j].fixed_ticker => i = j
        /\ MappedTickers = {StrippedTicker(i) : i \in 1..Len(group_map_csv.rows)}
        /\ \A i \in DOMAIN mapping.rows :
              mapping.rows[i].group =
                 StrStrip(group_map_csv.rows[LastOccurrence(mapping.rows[i].fixed_ticker)].group)

C22_Witness ==
    /\ pc = "attach"
    /\ Len(group_map_csv.rows) = 2
    /\ group_map_csv.rows[1].fixed_ticker = "AAA"
    /\ group_map_csv.rows[2].fixed_ticker = " AAA"
    /\ group_map_csv.rows[1].group = "Infra"
    /\ group_map_csv.rows[2].group = " AI "
    /\ Len(mapping.rows) = 1
    /\ mapping.rows[1].group = "AI"

(***************************************************************************)
(* Ties in latest_cross_section                                            *)
(***************************************************************************)
\* the positions of the rows of ticker t that carry its largest date
TopRows(t) ==
    {i \in 1..Len(panel) :
        /\ panel[i].fixed_ticker = t
        /\ \A j \in 1..Len(panel) :
              panel[j].fixed_ticker = t => panel[j].Date <= panel[i].Date}

\* C28: of the rows of a ticker that share its largest date,
\* latest_cross_section keeps exactly one, the first in the panel's row order.
C28_TieKeepsFirst ==
    pc = "latest" =>
        \A t \in TickersOf(panel) :
            /\ Cardinality({k \in 1..Len(latest) : latest[k].fixed_ticker = t}) = 1
            /\ \A k \in 1..Len(latest) :
                  latest[k].fixed_ticker = t => latest[k] = panel[Min(TopRows(t))]

\* a ticker with two different rows on its largest date, after an older row
C28_Witness ==
    /\ pc = "latest"
    /\ Len(panel) = 3
    /\ TopRows(panel[1].fixed_ticker) = {2, 3}
    /\ panel[2] # panel[3]
    /\ Len(latest) = 1
    /\ latest[1] = panel[2]

(***************************************************************************)
(* Fields of the merged rows                                               *)
(***************************************************************************)
SourceSeq == <<income_df, earnings_df, balance_df, cashflow_df>>

SourceFields == <<IncomeCols, EarningsCols, BalanceCols, CashflowCols>>

\* row r carries the fields of record x of source s
Carries(r, x, s) == \A c \in SourceFields[s] : c \in DOMAIN r /\ r[c] = x[c]

\* row r has no value in any field of source s
NullFields(r, s) == \A c \in SourceFields[s] : c \in DOMAIN r => r[c] = NULL

\* C25: a merged row carries, for every source with a record on the row's
\* date, the field values of such a record, and null (not zero) in the fields
\* of every source without a record on that date; every source record is
\* carried by a merged row of its date.
C25_FieldsFromSourcesOrNull ==
    pc # "merge" =>
        /\ \A r \in Range(merged_df.rows) : \A s \in 1..4 :
              IF r[KeyCol] \in DatesOf(SourceSeq[s])
              THEN \E x \in Range(SourceSeq[s].rows) :
                      x[KeyCol] = r[KeyCol] /\ Carries(r, x, s)
              ELSE NullFields(r, s)
        /\ \A s \in 1..4 : \A x \in Range(SourceSeq[s].rows) :
              \E r \in Range(merged_df.rows) : r[KeyCol] = x[KeyCol] /\ Carries(r, x, s)

\* a date only the balance sheet reports, the other three sources reporting
\* another date: the row has the balance fields and nulls elsewhere
C25_Witness ==
    /\ pc = "market_cap"
    /\ DatesOf(income_df) = {100} /\ DatesOf(earnings_df) = {100}
    /\ DatesOf(cashflow_df) = {100} /\ DatesOf(balance_df) = {120}
    /\ \E r \in Range(merged_df.rows) :
          /\ r[KeyCol] = 120
          /\ r["totalLiabilities"] = Num(50)
          /\ \A c \in IncomeCols \cup EarningsCols \cup CashflowCols :
                c \in DOMAIN r /\ r[c] = NULL

(***************************************************************************)
(* The per-ticker index as a product of growth factors                     *)
(***************************************************************************)
\* the product of 1 + r/100 over the rows R, a missing return counting as 1
RECURSIVE FactorProduct(_)
FactorProduct(R) ==
    IF R = {} THEN Num(1)
    ELSE LET x == CHOOSE y \in R : TRUE
         IN  Mul(GrowthFactor(x.Total_Return), FactorProduct(R \ {x}))

\* the rows of ticker t in the window after its first date, up to date d
LaterRows(t, d) ==
    {r \in InWindow(t) : r.Date <= d /\ r.Date > Min({x.Date : x \in InWindow(t)})}

\* C26: every index row of a ticker carries 100 times the product of the
\* growth factors 1 + r/100 of the ticker's rows in the window after its first
\* one and up to the row's date, a missing return counting as factor 1; the
\* index rows are exactly the rows in the window, so rows before the start
\* date change nothing.
C26_IndexIsProductOfFactors ==
    pc \in {"aggregate", "grouped"} =>
        /\ Len(idx_panel) = Cardinality({i \in 1..Len(panel) : panel[i].Date >= StartDate})
        /\ \A r \in Range(idx_panel) :
              r.index = Mul(Num(100), FactorProduct(LaterRows(r.fixed_ticker, r.Date)))

(***************************************************************************)
(* The cells of the group-index tables                                     *)
(***************************************************************************)
\* panels with rows on either side of the start date, caps missing or not
InitCells ==
    /\ pc = "index"
    /\ panel \in Panels(PanelDates, {Num(10)}, {NULL, Num(3)}, MaxRows)
    /\ idx_panel = <<>> /\ eq = <<>> /\ cap = <<>> /\ latest = <<>>
    /\ series = <<>> /\ pct = <<>> /\ w1 = <<>> /\ w2 = <<>>
    /\ IdlePipeline

SpecCells == InitCells /\ [][NextIndex]_vars

CellsOf(agg) == {<<agg[i].group, agg[i].Date>> : i \in 1..Len(agg)}

\* the (group, date) pairs some ticker of the group has a row for in the window
PresentCells == {<<r.group, r.Date>> : r \in {x \in Range(panel) : x.Date >= StartDate}}

\* C27: each group-index table has exactly one row for every (group, date)
\* with a row of a ticker of the group in the window and no other row; every
\* value is defined, the cap-weighted value being the weighted average where
\* the positive caps of the cell sum above 0 and the equal-weighted value of
\* the cell otherwise; both tables have the same cells.
C27_CellsExactlyWherePresent ==
    pc = "grouped" =>
        /\ CellsOf(eq) = PresentCells
        /\ CellsOf(cap) = PresentCells
        /\ Len(eq) = Cardinality(PresentCells)
        /\ Len(cap) = Cardinality(PresentCells)
        /\ \A i \in 1..Len(eq) : IsFin(eq[i].group_index)
        /\ \A i \in 1..Len(cap) :
              LET g == CellRows(idx_panel, cap[i].group, cap[i].Date)
              IN  /\ IsFin(cap[i].group_index)
                  /\ IF NoPositiveCap(g)
                     THEN cap[i].group_index = ValueAt(eq, cap[i].group, cap[i].Date)
                     ELSE cap[i].group_index =
                             Average([k \in 1..Len(g) |-> g[k].index],
                                     group_cap_weights(g).w)

\* a row before the start date that gives no cell, a cell that is cap-weighted
\* and a cell that falls back
C27_Witness ==
    /\ pc = "grouped"
    /\ \E r \in Range(panel) : r.Date < StartDate
    /\ Len(cap) = 2
    /\ ~NoPositiveCap(CellRows(idx_panel, cap[1].group, cap[1].Date))
    /\ NoPositiveCap(CellRows(idx_panel, cap[2].group, cap[2].Date))

(***************************************************************************)
(* alphadata.py: API key rotation.  api_call_counts is a dict keyed by the *)
(* key string, current_api_key_index a 0-based position in API_KEYS.       *)
(***************************************************************************)
CALLS_PER_KEY_LIMIT == 550

MaxKeys == 2

\* the key strings the environment variable may list, repeats allowed
KeyNames == {"K1", "K2"}

KeyLists(n) == SeqsUpTo(KeyNames, n) \ {<<>>}

\* rotate_api_key: the index it leaves and the value it returns
rotate_api_key(keys, counts, idx) ==
    IF counts[keys[idx + 1]] >= CALLS_PER_KEY_LIMIT
    THEN LET next == (idx + 1) % Len(keys)
         IN  [index |-> next, ok |-> counts[keys[next + 1]] < CALLS_PER_KEY_LIMIT]
    ELSE [index |-> idx, ok |-> TRUE]

\* increment_api_call
increment_api_call(keys, counts, idx) ==
    [counts EXCEPT ![keys[idx + 1]] = counts[keys[idx + 1]] + 1]

RECURSIVE SumCounts(_, _)
SumCounts(counts, K) ==
    IF K = {} THEN 0
    ELSE LET k == CHOOSE x \in K : TRUE IN counts[k] + SumCounts(counts, K \ {k})

\* sum(api_call_counts.values())
TotalCalls == SumCounts(api_call_counts, DOMAIN api_call_counts)

KeysQuiet ==
    UNCHANGED <<income_df, earnings_df, balance_df, cashflow_df, prices_df,
                merged_df, historical_market_cap_df, final_df, metrics_df,
                series, pct, w1, w2, panel, idx_panel, eq, cap, latest, groupVars, fetchVars, batchVars>>

\* module load and the first iteration of main's loop
InitKeys ==
    /\ pc = "rotate"
    /\ API_KEYS \in KeyLists(MaxKeys)
    /\ api_call_counts = [k \in Range(API_KEYS) |-> 0]
    /\ current_api_key_index = 0
    /\ fetch_no = 1 /\ result = FALSE /\ exhausted = FALSE
    /\ reports = <<>>
    /\ remaining_tickers = <<>> /\ feeds = <<>> /\ alpha = <<>>
    /\ group_map_csv = <<>> /\ mapping = <<>> /\ attached = <<>>
    /\ panel = <<>> /\ idx_panel = <<>> /\ eq = <<>> /\ cap = <<>> /\ latest = <<>>
    /\ series = <<>> /\ pct = <<>> /\ w1 = <<>> /\ w2 = <<>>
    /\ income_df = EmptyFrame /\ earnings_df = EmptyFrame
    /\ balance_df = EmptyFrame /\ cashflow_df = EmptyFrame
    /\ prices_df = None /\ NoOutputs

\* process_ticker, lines 484, 498, 505, 511, 517: the check before fetch
\* number fetch_no; False ends the ticker
RotateStep ==
    /\ pc = "rotate"
    /\ LET r == rotate_api_key(API_KEYS, api_call_counts, current_api_key_index)
       IN  /\ current_api_key_index' = r.index
           /\ IF r.ok
              THEN pc' = "fetch" /\ UNCHANGED <<result, exhausted>>
              ELSE pc' = "returned" /\ result' = FALSE /\ exhausted' = TRUE
    /\ UNCHANGED <<API_KEYS, api_call_counts, fetch_no>>
    /\ KeysQuiet

\* one fetch_* call.  The request raising leaves the count alone and ends the
\* ticker in the except clause; otherwise the call is counted.  No income data
\* ends the ticker after the first fetch; after the fifth fetch the rest of
\* process_ticker saves the ticker or fails.
FetchStep ==
    /\ pc = "fetch"
    /\ \E outcome \in {"raises", "no data", "data"} : \E saved \in BOOLEAN :
          IF outcome = "raises"
          THEN /\ pc' = "returned" /\ result' = FALSE
               /\ UNCHANGED <<api_call_counts, fetch_no>>
          ELSE /\ api_call_counts' = increment_api_call(API_KEYS, api_call_counts,
                                                         current_api_key_index)
               /\ IF fetch_no = 1 /\ outcome = "no data"
                  THEN pc' = "returned" /\ result' = FALSE /\ UNCHANGED fetch_no
                  ELSE IF fetch_no < 5
                  THEN pc' = "rotate" /\ fetch_no' = fetch_no + 1 /\ UNCHANGED result
                  ELSE pc' = "returned" /\ result' = saved /\ UNCHANGED fetch_no
    /\ UNCHANGED <<API_KEYS, current_api_key_index, exhausted>>
    /\ KeysQuiet

\* main, lines 648-656: the test on process_ticker's result, then the next
\* ticker if the list has one
MainStep ==
    /\ pc = "returned"
    /\ IF ~result /\ TotalCalls >= Len(API_KEYS) * CALLS_PER_KEY_LIMIT
       THEN pc' = "stopped_early" /\ UNCHANGED fetch_no
       ELSE \E more \in BOOLEAN :
               IF more THEN pc' = "rotate" /\ fetch_no' = 1
               ELSE pc' = "finished" /\ UNCHANGED fetch_no
    /\ result' = FALSE /\ exhausted' = FALSE
    /\ UNCHANGED <<API_KEYS, api_call_counts, current_api_key_index>>
    /\ KeysQuiet

NextKeys == RotateStep \/ FetchStep \/ MainStep

SpecKeys == InitKeys /\ [][NextKeys]_vars

\* C30: the key index stays a position of API_KEYS, no key's count exceeds
\* CALLS_PER_KEY_LIMIT, rotate_api_key returns False only when every key's
\* count has reached the limit, and when a ticker is abandoned for key
\* exhaustion main's test, total calls >= number of keys x limit, is true.
C30_KeyRotationInvariant ==
    pc \in {"rotate", "fetch", "returned", "stopped_early", "finished"} =>
        /\ current_api_key_index \in 0..(Len(API_KEYS) - 1)
        /\ \A k \in DOMAIN api_call_counts : api_call_counts[k] <= CALLS_PER_KEY_LIMIT
        /\ exhausted =>
              \A i \in 1..Len(API_KEYS) : api_call_counts[API_KEYS[i]] >= CALLS_PER_KEY_LIMIT
        /\ (pc = "returned" /\ exhausted) =>
              TotalCalls >= Len(API_KEYS) * CALLS_PER_KEY_LIMIT

(***************************************************************************)
(* alphadata.py: the fetch_* year filter.  A report's fiscalDateEnding is  *)
(* a date (a day number, all of them within START_YEAR..END_YEAR), absent  *)
(* from the record, JSON null, or a text with no leading year such as      *)
(* "None".                                                                 *)
(***************************************************************************)
MaxReports == 2

RawDates == {[kind |-> "date", day |-> d] : d \in FiscalDates}
               \cup {[kind |-> k, day |-> 0] : k \in {"absent", "null", "text"}}

\* int(r.get("fiscalDateEnding", "0000").split("-")[0]) raises: None has no
\* split, int() of a text that is no number is a ValueError
YearRaises(r) == r.kind \in {"null", "text"}

\* START_YEAR <= year <= END_YEAR; an absent key counts as year 0
YearInRange(r) == r.kind = "date"

\* the list comprehension of fetch_*: whether it raises, and the reports it
\* keeps when it does not
FilterByYear(q) ==
    [raised  |-> \E i \in 1..Len(q) : YearRaises(q[i]),
     reports |-> SelectSeq(q, YearInRange)]

\* extract_*: one row per report
Extract(cols, q, sh) == FrameOf(cols, [i \in 1..Len(q) |-> Report(cols, q[i].day, sh)])

InitFetch ==
    /\ pc = "fetch"
    /\ reports \in {[income |-> i, earnings |-> <<>>, balance |-> b, cashflow |-> <<>>] :
                       i \in SeqsUpTo(RawDates, MaxReports),
                       b \in SeqsUpTo(RawDates, MaxReports - 1)}
    /\ income_df = EmptyFrame /\ earnings_df = EmptyFrame
    /\ balance_df = EmptyFrame /\ cashflow_df = EmptyFrame
    /\ prices_df \in {None, PricesOn({101})}
    /\ NoOutputs
    /\ group_map_csv = <<>> /\ mapping = <<>> /\ attached = <<>>
    /\ API_KEYS = <<>> /\ api_call_counts = <<>> /\ current_api_key_index = 0
    /\ fetch_no = 0 /\ result = FALSE /\ exhausted = FALSE
    /\ remaining_tickers = <<>> /\ feeds = <<>> /\ alpha = <<>>
    /\ series = <<>> /\ pct = <<>> /\ w1 = <<>> /\ w2 = <<>>
    /\ panel = <<>> /\ idx_panel = <<>> /\ eq = <<>> /\ cap = <<>> /\ latest = <<>>

\* process_ticker, lines 487-537: the fetches in their order and the
\* extraction; an exception ends the ticker in the except clause (597-599),
\* no income report ends it at line 493
FetchReportsStep ==
    /\ pc = "fetch"
    /\ LET inc == FilterByYear(reports.income)
           ear == FilterByYear(reports.earnings)
           bal == FilterByYear(reports.balance)
           cf  == FilterByYear(reports.cashflow)
       IN  IF inc.raised
           THEN pc' = "failed" /\ UNCHANGED <<income_df, earnings_df, balance_df, cashflow_df>>
           ELSE IF inc.reports = <<>>
           THEN pc' = "skipped" /\ UNCHANGED <<income_df, earnings_df, balance_df, cashflow_df>>
           ELSE IF ear.raised \/ bal.raised \/ cf.raised
           THEN pc' = "failed" /\ UNCHANGED <<income_df, earnings_df, balance_df, cashflow_df>>
           ELSE /\ income_df' = Extract(IncomeCols, inc.reports, NULL)
                /\ earnings_df' = Extract(EarningsCols, ear.reports, NULL)
                /\ balance_df' = Extract(BalanceCols, bal.reports, Num(2))
                /\ cashflow_df' = Extract(CashflowCols, cf.reports, NULL)
                /\ pc' = "merge"
    /\ UNCHANGED <<prices_df, merged_df, historical_market_cap_df, final_df, metrics_df,
                   series, pct, w1, w2, panel, idx_panel, eq, cap, latest,
                   groupVars, keyVars, fetchVars, batchVars>>

NextFetch == FetchReportsStep \/ Next

SpecFetch == InitFetch /\ [][NextFetch]_vars

AllReports == reports.income \o reports.earnings \o reports.balance \o reports.cashflow

WellFormedDates == {r.day : r \in {x \in Range(AllReports) : x.kind = "date"}}

\* C24: a report whose fiscal period end is missing or unparseable never
\* aborts the ticker: when the ticker has an income report with a date, the
\* ticker is not failed or skipped, and its merged rows are those of the
\* reports with a date, the others dropped.
C24_MalformedRecordDropped ==
    (pc # "fetch" /\ \E i \in 1..Len(reports.income) : reports.income[i].kind = "date") =>
        /\ pc \notin {"failed", "skipped"}
        /\ pc # "merge" => DatesOf(merged_df) = WellFormedDates

(***************************************************************************)
(* Independence of the per-ticker results                                  *)
(***************************************************************************)
InitIndependent == InitGrowth \/ InitCells

NextIndependent == NextMetrics \/ NextIndex

SpecIndependent == InitIndependent /\ [][NextIndependent]_vars

\* the input frame cut down to the rows of ticker t, in their order
OwnRows(df, t) == [cols |-> df.cols, rows |-> SelectRows(df.rows, "ticker", t)]

OwnPanel(rows, t) == SelectSeq(rows, LAMBDA r : r.fixed_ticker = t)

\* C29: the rows calculate_all_metrics gives a ticker in a multi-ticker input
\* are the rows it gives when the input holds that ticker's rows alone, and
\* the index rows _build_ticker_index gives a ticker are those it gives on
\* the ticker's rows alone, whatever the other tickers' rows and wherever
\* they stand in the input.
C29_TickerResultsIndependent ==
    /\ pc = "done" =>
          /\ ~metrics_df.raised
          /\ \A t \in {r["ticker"] : r \in Range(final_df.rows)} :
                SelectRows(metrics_df.rows, "ticker", t)
                   = calculate_all_metrics(OwnRows(final_df, t)).rows
    /\ pc \in {"aggregate", "grouped"} =>
          \A t \in TickersOf(panel) :
              OwnPanel(idx_panel, t) = build_ticker_index(OwnPanel(panel, t), StartDate)

\* a row of another ticker between two quarters of a ticker whose growth is
\* taken over its own earlier quarter
C29_Witness ==
    /\ pc = "done"
    /\ Len(final_df.rows) = 3
    /\ final_df.rows[1]["ticker"] = "BBB" /\ final_df.rows[2]["ticker"] = "AAA"
    /\ final_df.rows[3]["ticker"] = "BBB"
    /\ final_df.rows[1][KeyCol] = 100 /\ final_df.rows[2][KeyCol] = 100
    /\ final_df.rows[3][KeyCol] = 120
    /\ \E r \in Range(metrics_df.rows) :
          r["ticker"] = "BBB" /\ r[KeyCol] = 120 /\ r["revenueGrowthPct"] = Num(20)

(***************************************************************************)
(* The batch: main's loop over the tickers (alphadata.py) and then         *)
(* process_all_companies over the saved files (calculate_metrics.py).      *)
(* A feed is what the API answers for one ticker.                          *)
(***************************************************************************)
MaxBatch == 2

Date(d) == [kind |-> "date", day |-> d]

BadDate(k) == [kind |-> k, day |-> 0]

Feed(inc, bal) ==
    [income |-> inc, earnings |-> <<>>, balance |-> bal, cashflow |-> <<>>,
     prices |-> PricesOn({101})]

\* no income report; two quarters; one quarter and no balance sheet; a
\* balance-sheet report whose date is null; an income report without the key
FeedKinds ==
    {Feed(<<>>, <<Date(100)>>),
     Feed(<<Date(100), Date(120)>>, <<Date(100)>>),
     Feed(<<Date(120)>>, <<>>),
     Feed(<<Date(100)>>, <<BadDate("null")>>),
     Feed(<<Date(100), BadDate("absent")>>, <<>>)}

Failed == [ok |-> FALSE, final_df |-> EmptyFrame]

\* process_ticker: what it saves, or that it returned False
process_ticker(ticker, feed) ==
    LET inc == FilterByYear(feed.income)
        ear == FilterByYear(feed.earnings)
        bal == FilterByYear(feed.balance)
        cf  == FilterByYear(feed.cashflow)
    IN  IF inc.raised THEN Failed
        ELSE IF inc.reports = <<>> THEN Failed
        ELSE IF ear.raised \/ bal.raised \/ cf.raised THEN Failed
        ELSE LET m == merge_all_data(Extract(IncomeCols, inc.reports, NULL),
                                     Extract(EarningsCols, ear.reports, NULL),
                                     Extract(BalanceCols, bal.reports, Num(2)),
                                     Extract(CashflowCols, cf.reports, NULL))
             IN  IF IsEmpty(m) THEN Failed
                 ELSE LET merged == InsertTicker(m, ticker)
                          hist   == calculate_historical_market_cap(merged, feed.prices)
                          final  == JoinMarketCap(merged, hist)
                      IN  IF Len(final.rows) = 0 THEN Failed
                          ELSE [ok |-> TRUE, final_df |-> final]

\* the loop going on only after a ticker that was saved
AfterTicker_StopOnFailure(rest, ok) == IF ok THEN Tail(rest) ELSE <<>>

\* main, lines 645-656: whatever process_ticker returned, the next ticker
AfterTicker(rest, ok) == Tail(rest)

\* pd.concat(all_data, ignore_index=True): the union of the columns, the
\* rows of the frames one after the other
Concat(frames) ==
    LET cols == UNION {frames[i].cols : i \in 1..Len(frames)}
    IN  [cols |-> cols,
         rows |-> Flatten([i \in 1..Len(frames) |->
                     [j \in 1..Len(frames[i].rows) |-> Widen(frames[i].rows[j], cols)]])]

\* load_alpha_data: the saved files combined, None when there is none
load_alpha_data(files) ==
    LET saved == SelectSeq(TickerSeq, LAMBDA t : t \in DOMAIN files)
    IN  IF saved = <<>> THEN None
        ELSE Concat([i \in 1..Len(saved) |-> files[saved[i]]])

\* the orders of at most n tickers
RECURSIVE Batches(_)
Batches(n) ==
    IF n = 0 THEN {<<>>}
    ELSE LET shorter == Batches(n - 1)
         IN  shorter \cup {Append(q, t) : q \in {x \in shorter : Len(x) = n - 1},
                                         t \in Range(TickerSeq)}

\* the batches of different tickers
DistinctBatches(n) ==
    {q \in Batches(n) : q # <<>> /\ \A i, j \in 1..Len(q) : q[i] = q[j] => i = j}

InitBatch ==
    /\ pc = "loop"
    /\ remaining_tickers \in DistinctBatches(MaxBatch)
    /\ feeds \in [Range(remaining_tickers) -> FeedKinds]
    /\ alpha = <<>>
    /\ reports = <<>>
    /\ income_df = EmptyFrame /\ earnings_df = EmptyFrame
    /\ balance_df = EmptyFrame /\ cashflow_df = EmptyFrame
    /\ prices_df = None /\ NoOutputs
    /\ group_map_csv = <<>> /\ mapping = <<>> /\ attached = <<>>
    /\ API_KEYS = <<>> /\ api_call_counts = <<>> /\ current_api_key_index = 0
    /\ fetch_no = 0 /\ result = FALSE /\ exhausted = FALSE
    /\ series = <<>> /\ pct = <<>> /\ w1 = <<>> /\ w2 = <<>>
    /\ panel = <<>> /\ idx_panel = <<>> /\ eq = <<>> /\ cap = <<>> /\ latest = <<>>

BatchQuiet ==
    UNCHANGED <<income_df, earnings_df, balance_df, cashflow_df, prices_df,
                merged_df, historical_market_cap_df, final_df,
                series, pct, w1, w2, panel, idx_panel, eq, cap, latest,
                groupVars, keyVars, fetchVars>>

\* one iteration of main's loop: the ticker's file is written when
\* process_ticker saved it
ProcessTickerStep ==
    /\ pc = "loop"
    /\ remaining_tickers # <<>>
    /\ LET ticker == Head(remaining_tickers)
           res    == process_ticker(ticker, feeds[ticker])
       IN  /\ alpha' = IF res.ok
                       THEN [t \in (DOMAIN alpha) \cup {ticker} |->
                                IF t = ticker THEN res.final_df ELSE alpha[t]]
                       ELSE alpha
           /\ remaining_tickers' = AfterTicker(remaining_tickers, res.ok)
    /\ UNCHANGED <<pc, feeds, metrics_df>>
    /\ BatchQuiet

\* process_all_companies: the files loaded and the metrics calculated
ProcessAllCompaniesStep ==
    /\ pc = "loop"
    /\ remaining_tickers = <<>>
    /\ LET combined_df == load_alpha_data(alpha)
       IN  IF IsNone(combined_df)
           THEN pc' = "no_data" /\ UNCHANGED metrics_df
           ELSE pc' = "done" /\ metrics_df' = calculate_all_metrics(combined_df)
    /\ UNCHANGED <<remaining_tickers, feeds, alpha>>
    /\ BatchQuiet

NextBatch == ProcessTickerStep \/ ProcessAllCompaniesStep

SpecBatch == InitBatch /\ [][NextBatch]_vars

\* the tickers of the batch that process_ticker saves
Sound == {t \in DOMAIN feeds : process_ticker(t, feeds[t]).ok}

\* the saved files of a batch made of the sound tickers alone
SoundFiles == [t \in Sound |-> process_ticker(t, feeds[t]).final_df]

====
